---- MODULE Spec2Model ----
(***************************************************************************)
(* A model of the MultiCodex extension (src/unnamed/part_000, the version  *)
(* of index.ts with the usage cache and pickBestAccount): the account      *)
(* store, the usage cache, the selection policy and the streaming retry    *)
(* wrapper.                                                                *)
(*                                                                         *)
(* Conventions.  An e-mail is a natural number 1..n; the pool is the       *)
(* sequence data.accounts, in insertion order.  An optional number that is *)
(* undefined in the TypeScript is Undefined (-1) here; every time and      *)
(* percentage of the program is >= 0.  Times are epoch milliseconds.       *)
(***************************************************************************)
EXTENDS Integers, Sequences, FiniteSets, TLC

Undefined == -1

\* No account: the `undefined` that pickBestAccount / activateBestAccount return.
NoAccount == 0

(***************************************************************************)
(* Program constants                                                       *)
(***************************************************************************)
USAGE_CACHE_TTL_MS == 5 * 60 * 1000
QUOTA_COOLDOWN_MS == 60 * 60 * 1000
TOKEN_MARGIN_MS == 5 * 60 * 1000
\* Mutant of MAX_ROTATION_RETRIES: one retry more.
MAX_ROTATION_RETRIES_OneMore == 5 + 1

MAX_ROTATION_RETRIES == 5
PROVIDER_ID == "multicodex"
INTERNAL_PROVIDER == "openai-codex"

(***************************************************************************)
(* Usage snapshots (CodexUsageSnapshot) and their derived predicates       *)
(***************************************************************************)
\* A window that is absent (usage.primary === undefined).
NoWindow == [present |-> FALSE, usedPercent |-> Undefined, resetAt |-> Undefined]

Window(usedPercent, resetAt) ==
    [present |-> TRUE, usedPercent |-> usedPercent, resetAt |-> resetAt]

Snapshot(primary, secondary, fetchedAt) ==
    [primary |-> primary, secondary |-> secondary, fetchedAt |-> fetchedAt]

\* usage?.primary?.usedPercent and friends: Undefined when the window is absent.
UsedPercentOf(w) == IF w.present THEN w.usedPercent ELSE Undefined
ResetAtOf(w) == IF w.present THEN w.resetAt ELSE Undefined

\* The usage cache is a Map<email, snapshot>: a function whose DOMAIN is the
\* set of keys; usageByEmail.has(e) is e \in DOMAIN usageByEmail.
HasUsage(usageByEmail, email) == email \in DOMAIN usageByEmail

isUsageUntouched(usage) ==
    LET primary == UsedPercentOf(usage.primary)
        secondary == UsedPercentOf(usage.secondary)
    IN  IF primary = Undefined \/ secondary = Undefined
        THEN FALSE
        ELSE primary = 0 /\ secondary = 0

Min2(a, b) == IF a <= b THEN a ELSE b

getNextResetAt(usage) ==
    LET p == ResetAtOf(usage.primary)
        s == ResetAtOf(usage.secondary)
    IN  IF p = Undefined /\ s = Undefined THEN Undefined
        ELSE IF p = Undefined THEN s
        ELSE IF s = Undefined THEN p
        ELSE Min2(p, s)

\* usageByEmail.get(e) then isUsageUntouched / getNextResetAt, with the
\* `usage?: ...` undefined case.
UntouchedIn(usageByEmail, email) ==
    HasUsage(usageByEmail, email) /\ isUsageUntouched(usageByEmail[email])

NextResetIn(usageByEmail, email) ==
    IF HasUsage(usageByEmail, email)
    THEN getNextResetAt(usageByEmail[email])
    ELSE Undefined

(***************************************************************************)
(* Selection policy                                                        *)
(***************************************************************************)
\* Mutant of isAccountAvailable: the comparison with now is inverted.
isAccountAvailable_Inverted(account, now) ==
    \/ account.quotaExhaustedUntil = Undefined
    \/ account.quotaExhaustedUntil = 0
    \/ account.quotaExhaustedUntil >= now

isAccountAvailable(account, now) ==
    \/ account.quotaExhaustedUntil = Undefined
    \/ account.quotaExhaustedUntil = 0
    \/ account.quotaExhaustedUntil <= now

\* Array.prototype.filter is SelectSeq: the subsequence of the elements
\* satisfying the test, in list order.

\* Mutant of pickRandomAccount: the index is rounded up, so it can be
\* accounts.length and the element undefined.
pickRandomAccount_OffByOne(accts) ==
    {NoAccount} \cup {accts[i].email : i \in 1..Len(accts)}

\* pickRandomAccount: any element of the list (Math.random), none if empty.
\* The result is the SET of e-mails the call can return.
pickRandomAccount(accts) ==
    IF Len(accts) = 0 THEN {NoAccount}
    ELSE {accts[i].email : i \in 1..Len(accts)}

\* Mutant of pickEarliestResetAccount: the comparator is reversed
\* (b.resetAt - a.resetAt), the latest reset comes first.
pickEarliestResetAccount_Latest(accts, usageByEmail) ==
    LET HasReset(a) == NextResetIn(usageByEmail, a.email) # Undefined
        candidates == SelectSeq(accts, HasReset)
        IsMax(i) == \A j \in 1..Len(candidates) :
                        NextResetIn(usageByEmail, candidates[i].email)
                            >= NextResetIn(usageByEmail, candidates[j].email)
        first == CHOOSE i \in 1..Len(candidates) :
                    IsMax(i) /\ \A j \in 1..(i - 1) : ~IsMax(j)
    IN  IF Len(candidates) = 0 THEN NoAccount ELSE candidates[first].email

\* pickEarliestResetAccount: the entries with a numeric resetAt, stably
\* sorted by resetAt; candidates[0] is the first account in list order among
\* those of minimal resetAt.
pickEarliestResetAccount(accts, usageByEmail) ==
    LET HasReset(a) == NextResetIn(usageByEmail, a.email) # Undefined
        candidates == SelectSeq(accts, HasReset)
        IsMin(i) == \A j \in 1..Len(candidates) :
                        NextResetIn(usageByEmail, candidates[i].email)
                            <= NextResetIn(usageByEmail, candidates[j].email)
        first == CHOOSE i \in 1..Len(candidates) :
                    IsMin(i) /\ \A j \in 1..(i - 1) : ~IsMin(j)
    IN  IF Len(candidates) = 0 THEN NoAccount ELSE candidates[first].email

\* Mutant of pickBestAccount: the untouched accounts are not preferred, the
\* earliest reset among the accounts with usage wins.
pickBestAccount_NoUntouched(accts, usageByEmail, excludeEmails, now) ==
    LET Avail(a) == isAccountAvailable(a, now) /\ a.email \notin excludeEmails
        available == SelectSeq(accts, Avail)
        WithU(a) == HasUsage(usageByEmail, a.email)
        withUsage == SelectSeq(available, WithU)
        earliestReset == pickEarliestResetAccount(withUsage, usageByEmail)
    IN  IF Len(available) = 0 THEN {NoAccount}
        ELSE IF earliestReset # NoAccount THEN {earliestReset}
        ELSE pickRandomAccount(available)

\* pickBestAccount: the set of e-mails the call can return ({NoAccount} for
\* undefined); a singleton unless the random fallback is taken.
pickBestAccount(accts, usageByEmail, excludeEmails, now) ==
    LET Avail(a) == isAccountAvailable(a, now) /\ a.email \notin excludeEmails
        available == SelectSeq(accts, Avail)
        WithU(a) == HasUsage(usageByEmail, a.email)
        withUsage == SelectSeq(available, WithU)
        Untouched(a) == UntouchedIn(usageByEmail, a.email)
        untouched == SelectSeq(withUsage, Untouched)
        earliestUntouched == pickEarliestResetAccount(untouched, usageByEmail)
        earliestReset == pickEarliestResetAccount(withUsage, usageByEmail)
    IN  IF Len(available) = 0 THEN {NoAccount}
        ELSE IF Len(untouched) > 0
             THEN IF earliestUntouched # NoAccount
                  THEN {earliestUntouched}
                  ELSE pickRandomAccount(untouched)
        ELSE IF earliestReset # NoAccount THEN {earliestReset}
        ELSE pickRandomAccount(available)

(***************************************************************************)
(* isQuotaErrorMessage.  A message is a sequence of one-character strings. *)
(* The regular expression is                                               *)
(*   /\b429\b|quota|usage limit|rate.?limit|too many requests|limit reached/i *)
(***************************************************************************)
UpperCase ==
    <<"A","B","C","D","E","F","G","H","I","J","K","L","M",
      "N","O","P","Q","R","S","T","U","V","W","X","Y","Z">>
LowerCase ==
    <<"a","b","c","d","e","f","g","h","i","j","k","l","m",
      "n","o","p","q","r","s","t","u","v","w","x","y","z">>
Digits == {"0","1","2","3","4","5","6","7","8","9"}

\* The i flag: a letter matches in either case.
ToLower(c) ==
    IF \E k \in 1..26 : UpperCase[k] = c
    THEN LowerCase[CHOOSE k \in 1..26 : UpperCase[k] = c]
    ELSE c

\* \w of the regular expression: [A-Za-z0-9_].
IsWordChar(c) ==
    \/ \E k \in 1..26 : UpperCase[k] = c \/ LowerCase[k] = c
    \/ c \in Digits
    \/ c = "_"

\* Mutant of MatchAt: the i flag is missing, letters match in their own
\* case only.
MatchAt_CaseSensitive(msg, i, pat) ==
    /\ i >= 1
    /\ i + Len(pat) - 1 <= Len(msg)
    /\ \A k \in 1..Len(pat) : msg[i + k - 1] = pat[k]

\* The literal pat (lower case) matches msg at position i.
MatchAt(msg, i, pat) ==
    /\ i >= 1
    /\ i + Len(pat) - 1 <= Len(msg)
    /\ \A k \in 1..Len(pat) : ToLower(msg[i + k - 1]) = pat[k]

Contains(msg, pat) == \E i \in 1..Len(msg) : MatchAt(msg, i, pat)

\* \b before position i (between msg[i-1] and msg[i]); the ends of the
\* message count as non-word characters.
WordAt(msg, i) == i >= 1 /\ i <= Len(msg) /\ IsWordChar(msg[i])
BoundaryBefore(msg, i) == WordAt(msg, i - 1) # WordAt(msg, i)

P429 == <<"4","2","9">>
PQuota == <<"q","u","o","t","a">>
PUsageLimit == <<"u","s","a","g","e"," ","l","i","m","i","t">>
PRate == <<"r","a","t","e">>
PLimit == <<"l","i","m","i","t">>
PTooMany ==
    <<"t","o","o"," ","m","a","n","y"," ","r","e","q","u","e","s","t","s">>
PLimitReached == <<"l","i","m","i","t"," ","r","e","a","c","h","e","d">>

\* `.` matches any character but a line terminator.
IsLineTerminator(c) == c = "\n" \/ c = "\r"

isQuotaErrorMessage(msg) ==
    \/ \E i \in 1..Len(msg) :
          /\ MatchAt(msg, i, P429)
          /\ BoundaryBefore(msg, i)
          /\ BoundaryBefore(msg, i + 3)
    \/ Contains(msg, PQuota)
    \/ Contains(msg, PUsageLimit)
    \/ \E i \in 1..Len(msg) :
          /\ MatchAt(msg, i, PRate)
          /\ \/ MatchAt(msg, i + 4, PLimit)
             \/ /\ i + 4 <= Len(msg)
                /\ ~IsLineTerminator(msg[i + 4])
                /\ MatchAt(msg, i + 5, PLimit)
    \/ Contains(msg, PTooMany)
    \/ Contains(msg, PLimitReached)

(***************************************************************************)
(* State                                                                   *)
(***************************************************************************)
VARIABLES
    accounts,        \* this.data.accounts: sequence of Account records
    activeEmail,     \* this.data.activeEmail (NoAccount when unset)
    disk,            \* the durable record last written by save()
    usageCache,      \* this.usageCache: Map<email, CodexUsageSnapshot>
    now,             \* Date.now()
    env,             \* environment: what the run may still meet
    pick,            \* one call of the pure function pickBestAccount
    req,             \* the logical request in progress in the stream wrapper
    manualEmail,     \* the manually pinned e-mail (NoAccount when not pinned)
    peer,            \* a second logical request, suspended at an await
    op               \* the latest AccountManager operation called directly

vars == <<accounts, activeEmail, disk, usageCache, now, env, pick, req,
          manualEmail, peer, op>>

\* The value of usage when refreshUsageForAccount returned undefined.
NoSnapshot == Snapshot(NoWindow, NoWindow, Undefined)

\* No AccountManager operation was called directly yet.  The record of an
\* operation holds its arguments, what it did upstream and what it returned.
NoOp ==
    [n |-> 0, name |-> "none", email |-> NoAccount, force |-> FALSE,
     fetchOk |-> FALSE, tokenCalls |-> 0, fetchCalls |-> 0,
     has |-> FALSE, usage |-> NoSnapshot, warned |-> FALSE, raised |-> FALSE,
     token |-> Undefined, cacheBefore |-> <<>>, fetched |-> {}]

\* An Account record.  accessToken and refreshToken are the generation of
\* the credentials (0 as stored, +1 per refresh).
Account(email, gen, expiresAt, lastUsed, quotaExhaustedUntil) ==
    [email |-> email, accessToken |-> gen, refreshToken |-> gen,
     expiresAt |-> expiresAt, lastUsed |-> lastUsed,
     quotaExhaustedUntil |-> quotaExhaustedUntil]

(***************************************************************************)
(* pickBestAccount as a pure function: the inputs are drawn in PickInit,   *)
(* PickCall applies it.                                                    *)
(***************************************************************************)
MaxPickAccounts == 2

PickEmails == 1..MaxPickAccounts
PickNows == {1000, 1500}
PickExhaustedUntil == {Undefined, 1000, 2000}
PickWindows ==
    {NoWindow, Window(0, Undefined), Window(0, 5000), Window(10, 3000),
     Window(10, 5000), Window(Undefined, 3000)}
PickSnapshots == {Snapshot(p, s, 0) : p \in PickWindows, s \in PickWindows}

\* Every list of accounts with pairwise distinct e-mails.
PickAccountLists ==
    UNION {
        {[i \in 1..n |-> Account(order[i], 0, 0, Undefined, ex[order[i]])] :
            order \in {f \in [1..n -> PickEmails] :
                          \A i, j \in 1..n : i # j => f[i] # f[j]},
            ex \in [PickEmails -> PickExhaustedUntil]} :
        n \in 0..MaxPickAccounts}

PickUsageMaps == UNION {[S -> PickSnapshots] : S \in SUBSET PickEmails}

PickIdle ==
    [accounts |-> <<>>, usage |-> <<>>, exclude |-> {}, now |-> 0,
     called |-> FALSE, result |-> NoAccount]

(***************************************************************************)
(* Credential store (AccountManager.data and save())                      *)
(***************************************************************************)
\* The store as an operation finds it; writes counts the writeFileSync
\* calls of the operation.
\* writable tells whether writeFileSync succeeds.
Store ==
    [accounts |-> accounts, activeEmail |-> activeEmail, disk |-> disk,
     writes |-> 0, writable |-> env.diskOk]

SetStore(st) ==
    /\ accounts' = st.accounts
    /\ activeEmail' = st.activeEmail
    /\ disk' = st.disk

\* Mutant of save: when the write fails the in-memory record is put back to
\* what the durable record holds.
save_RollBack(st) ==
    IF st.writable
    THEN [st EXCEPT !.disk = [accounts |-> st.accounts,
                              activeEmail |-> st.activeEmail],
                    !.writes = st.writes + 1]
    ELSE [st EXCEPT !.accounts = st.disk.accounts,
                    !.activeEmail = st.disk.activeEmail,
                    !.writes = st.writes + 1]

\* save(): the whole record is rewritten.  A write that fails raises inside
\* the try block; the catch block logs it and save() returns normally with
\* the durable record as it was.
save(st) ==
    IF st.writable
    THEN [st EXCEPT !.disk = [accounts |-> st.accounts,
                              activeEmail |-> st.activeEmail],
                    !.writes = st.writes + 1]
    ELSE [st EXCEPT !.writes = st.writes + 1]

\* getAccount: Array.prototype.find, as the index of the first account with
\* that e-mail, 0 if there is none.
getAccount(accts, email) ==
    IF \E i \in 1..Len(accts) : accts[i].email = email
    THEN CHOOSE i \in 1..Len(accts) :
            /\ accts[i].email = email
            /\ \A j \in 1..(i - 1) : accts[j].email # email
    ELSE 0

AccountOf(accts, email) == accts[getAccount(accts, email)]

\* Mutant of setActiveAccount: the `if (!account) return` is missing.
setActiveAccount_NoCheck(st, email, t) ==
    LET i == getAccount(st.accounts, email)
    IN  IF i = 0 THEN save([st EXCEPT !.activeEmail = email])
        ELSE save([st EXCEPT !.activeEmail = email,
                             !.accounts[i].lastUsed = t])

setActiveAccount(st, email, t) ==
    LET i == getAccount(st.accounts, email)
    IN  IF i = 0 THEN st
        ELSE save([st EXCEPT !.activeEmail = email,
                             !.accounts[i].lastUsed = t])

\* Mutant of markExhausted: save() is not called.
markExhausted_NoSave(st, email, until) ==
    LET i == getAccount(st.accounts, email)
    IN  IF i = 0 THEN st
        ELSE [st EXCEPT !.accounts[i].quotaExhaustedUntil = until]

markExhausted(st, email, until) ==
    LET i == getAccount(st.accounts, email)
    IN  IF i = 0 THEN st
        ELSE save([st EXCEPT !.accounts[i].quotaExhaustedUntil = until])

\* OAuthCredentials as addOrUpdateAccount reads them.
Credentials(gen, expires) ==
    [access |-> gen, refresh |-> gen, expires |-> expires]

\* The account addOrUpdateAccount pushes.
NewAccount(email, creds) ==
    [email |-> email, accessToken |-> creds.access,
     refreshToken |-> creds.refresh, expiresAt |-> creds.expires,
     lastUsed |-> Undefined, quotaExhaustedUntil |-> Undefined]

\* Mutant of addOrUpdateAccount: the account is pushed also when the e-mail
\* is in the pool.
addOrUpdateAccount_AlwaysPush(st, email, creds, t) ==
    save(setActiveAccount(
            [st EXCEPT !.accounts = Append(st.accounts,
                                           NewAccount(email, creds))],
            email, t))

\* Mutant of addOrUpdateAccount: setActiveAccount(email) is not called.
addOrUpdateAccount_NoActivate(st, email, creds, t) ==
    LET i == getAccount(st.accounts, email)
    IN  save(IF i # 0
             THEN [st EXCEPT !.accounts[i].accessToken = creds.access,
                             !.accounts[i].refreshToken = creds.refresh,
                             !.accounts[i].expiresAt = creds.expires]
             ELSE [st EXCEPT !.accounts = Append(st.accounts,
                                                 NewAccount(email, creds))])

\* Mutant of addOrUpdateAccount: a login with an e-mail of the pool also
\* removes the account's cooldown.
addOrUpdateAccount_ClearsCooldown(st, email, creds, t) ==
    LET i == getAccount(st.accounts, email)
        written ==
            IF i # 0
            THEN [st EXCEPT !.accounts[i].accessToken = creds.access,
                            !.accounts[i].refreshToken = creds.refresh,
                            !.accounts[i].expiresAt = creds.expires,
                            !.accounts[i].quotaExhaustedUntil = Undefined]
            ELSE [st EXCEPT !.accounts = Append(st.accounts,
                                                NewAccount(email, creds))]
    IN  save(setActiveAccount(written, email, t))

\* addOrUpdateAccount(email, creds): the account with that e-mail is
\* overwritten in place, or a new account is pushed; then
\* setActiveAccount(email) and save().
addOrUpdateAccount(st, email, creds, t) ==
    LET i == getAccount(st.accounts, email)
        written ==
            IF i # 0
            THEN [st EXCEPT !.accounts[i].accessToken = creds.access,
                            !.accounts[i].refreshToken = creds.refresh,
                            !.accounts[i].expiresAt = creds.expires]
            ELSE [st EXCEPT !.accounts = Append(st.accounts,
                                                NewAccount(email, creds))]
    IN  save(setActiveAccount(written, email, t))

\* Mutant of ExhaustionExpired: a cooldown that ends exactly now is kept.
ExhaustionExpired_Strict(account, t) ==
    /\ account.quotaExhaustedUntil # Undefined
    /\ account.quotaExhaustedUntil # 0
    /\ account.quotaExhaustedUntil < t

\* `account.quotaExhaustedUntil && account.quotaExhaustedUntil <= now`
ExhaustionExpired(account, t) ==
    /\ account.quotaExhaustedUntil # Undefined
    /\ account.quotaExhaustedUntil # 0
    /\ account.quotaExhaustedUntil <= t

\* Mutant of clearExpiredExhaustion: save() is called whether or not an
\* account changed.
clearExpiredExhaustion_AlwaysSave(st, t) ==
    save([st EXCEPT !.accounts =
            [i \in 1..Len(st.accounts) |->
                IF ExhaustionExpired(st.accounts[i], t)
                THEN [st.accounts[i] EXCEPT !.quotaExhaustedUntil = Undefined]
                ELSE st.accounts[i]]])

clearExpiredExhaustion(st, t) ==
    LET cleared ==
            [i \in 1..Len(st.accounts) |->
                IF ExhaustionExpired(st.accounts[i], t)
                THEN [st.accounts[i] EXCEPT !.quotaExhaustedUntil = Undefined]
                ELSE st.accounts[i]]
        changed == \E i \in 1..Len(st.accounts) :
                        ExhaustionExpired(st.accounts[i], t)
    IN  IF changed THEN save([st EXCEPT !.accounts = cleared]) ELSE st

(***************************************************************************)
(* Token refresher                                                         *)
(***************************************************************************)
\* The lifetime of the credentials the token endpoint hands out.
TokenLifetimeMs == 60 * 60 * 1000

\* ensureValidToken's test `Date.now() < account.expiresAt - 5 * 60 * 1000`
TokenFresh(account, t) == t < account.expiresAt - TOKEN_MARGIN_MS

\* ensureValidToken after a successful refreshOpenAICodexToken: the account
\* object is overwritten and the store saved.  The account is the object the
\* caller holds; it stays in the pool (nothing removes accounts).
tokenRefreshed(st, email, t) ==
    LET i == getAccount(st.accounts, email)
    IN  IF i = 0 THEN save(st)
        ELSE save([st EXCEPT
                !.accounts[i].accessToken = st.accounts[i].accessToken + 1,
                !.accounts[i].refreshToken = st.accounts[i].refreshToken + 1,
                !.accounts[i].expiresAt = t + TokenLifetimeMs])

(***************************************************************************)
(* Usage cache                                                             *)
(***************************************************************************)
\* Mutant of IsStale: every account counts as stale.
IsStale_Always(cache, email, t) == TRUE

\* refreshUsageIfStale's filter: no snapshot, or one at least TTL old.
IsStale(cache, email, t) ==
    \/ ~HasUsage(cache, email)
    \/ t - cache[email].fetchedAt >= USAGE_CACHE_TTL_MS

StaleEmails(accts, cache, t) ==
    {accts[i].email : i \in {j \in 1..Len(accts) : IsStale(cache, accts[j].email, t)}}

\* this.usageCache.set(email, usage)
CacheSet(cache, email, usage) ==
    [e \in (DOMAIN cache) \cup {email} |->
        IF e = email THEN usage ELSE cache[e]]

(***************************************************************************)
(* Usage parsing (WhamUsageResponse -> CodexUsageSnapshot)                 *)
(***************************************************************************)
\* A window of the upstream response: each field may be missing.
RawWindow(hasUsed, used_percent, hasReset, reset_at) ==
    [present |-> TRUE, hasUsed |-> hasUsed, used_percent |-> used_percent,
     hasReset |-> hasReset, reset_at |-> reset_at]
NoRawWindow ==
    [present |-> FALSE, hasUsed |-> FALSE, used_percent |-> 0,
     hasReset |-> FALSE, reset_at |-> 0]

normalizeUsedPercent(has, value) ==
    IF ~has THEN Undefined
    ELSE IF value < 0 THEN 0 ELSE IF value > 100 THEN 100 ELSE value

normalizeResetAt(has, value) == IF ~has THEN Undefined ELSE value * 1000

\* Mutant of parseUsageWindow: a missing used_percent counts as 0 and a
\* window without fields is kept.
parseUsageWindow_ZeroDefault(w) ==
    IF ~w.present THEN NoWindow
    ELSE LET usedPercent == normalizeUsedPercent(w.hasUsed, w.used_percent)
             resetAt == normalizeResetAt(w.hasReset, w.reset_at)
         IN  Window(IF usedPercent = Undefined THEN 0 ELSE usedPercent,
                    resetAt)

parseUsageWindow(w) ==
    IF ~w.present THEN NoWindow
    ELSE LET usedPercent == normalizeUsedPercent(w.hasUsed, w.used_percent)
             resetAt == normalizeResetAt(w.hasReset, w.reset_at)
         IN  IF usedPercent = Undefined /\ resetAt = Undefined
             THEN NoWindow
             ELSE Window(usedPercent, resetAt)

\* fetchCodexUsage on an OK response: the parsed windows, fetchedAt = now.
parseCodexUsageResponse(data, t) ==
    Snapshot(parseUsageWindow(data.primary_window),
             parseUsageWindow(data.secondary_window), t)

(***************************************************************************)
(* Environment of the stream wrapper                                       *)
(***************************************************************************)
NumAccounts == 7      \* size of the large pool
SmallPool == 2        \* pools up to this size run in the full environment
MaxTicks == 1         \* the clock advances at most this many times
MaxPartials == 2      \* non-terminal events of one upstream stream
MaxRequests == 2      \* logical requests made one after the other

TickMs == 5 * 60 * 1000

\* What the usage endpoint can answer at time t: an untouched account, or
\* an account whose 5h window is used up and resets one tick from t.
UsageResponses(t) ==
    {[primary_window |-> RawWindow(TRUE, 0, FALSE, 0),
      secondary_window |-> RawWindow(TRUE, 0, FALSE, 0)],
     [primary_window |-> RawWindow(TRUE, 120, TRUE, (t + TickMs) \div 1000),
      secondary_window |-> RawWindow(TRUE, 50, FALSE, 0)]}

\* Outcome of one refreshUsageForAccount that goes upstream: the token
\* refresh fails (possible only when the token needed one), the fetch fails,
\* or a snapshot is stored.
FetchFailed == [ok |-> FALSE, tokenOk |-> TRUE]
TokenFailed == [ok |-> FALSE, tokenOk |-> FALSE]
Fetched(snapshot) == [ok |-> TRUE, tokenOk |-> TRUE, usage |-> snapshot]

RefreshOutcomes(tokenFresh, up, t) ==
    {FetchFailed}
        \cup (IF tokenFresh THEN {} ELSE {TokenFailed})
        \cup (IF up
              THEN {Fetched(parseCodexUsageResponse(r, t)) :
                        r \in UsageResponses(t)}
              ELSE {})

\* Error messages of upstream error events.
Msg429 == <<"H","T","T","P"," ","4","2","9">>
MsgNetwork == <<"n","e","t","w","o","r","k"," ","e","r","r","o","r">>
MsgBadRequest == <<"b","a","d"," ","r","e","q","u","e","s","t">>
ErrorMessages == {Msg429, MsgNetwork}

\* Messages of the exceptions raised inside the wrapper.
NoAccountsMessage ==
    "No available Multicodex accounts. Please use /multicodex-login."
TokenRefreshMessage == "Failed to refresh OpenAI Codex token"
UpstreamExceptionMessage == "upstream exception"
NoException == "none"

(***************************************************************************)
(* Events                                                                  *)
(***************************************************************************)
\* An event of the upstream stream of attempt `attempt`, the seq-th it
\* produced.  type is "text" (any event that is neither done nor error),
\* "done" or "error".
UpstreamEvent(type, msg, attempt, seq) ==
    [type |-> type, msg |-> msg, provider |-> INTERNAL_PROVIDER,
     attempt |-> attempt, seq |-> seq]

withProvider(event, provider) == [event EXCEPT !.provider = provider]

\* The event built in the catch block: `Multicodex failed: ${message}`.
SyntheticError(message) ==
    [type |-> "error", msg |-> <<"Multicodex failed: ", message>>,
     provider |-> PROVIDER_ID, attempt |-> Undefined, seq |-> 0]

IsTerminal(event) == event.type \in {"done", "error"}

(***************************************************************************)
(* Stream wrapper: one logical request                                     *)
(*                                                                         *)
(* req.pc is the await the async body is suspended at:                     *)
(*   idle       no request yet                                             *)
(*   select     head of the attempt loop, before activateBestAccount       *)
(*   refreshing inside activateBestAccount, awaiting refreshUsageIfStale   *)
(*   selected   activateBestAccount returned an account                    *)
(*   tokenWait  awaiting refreshOpenAICodexToken in ensureValidToken       *)
(*   call       token obtained, before baseProvider.streamSimple           *)
(*   streaming  in `for await (const event of inner)`                      *)
(*   quotaWait  awaiting handleQuotaExceeded                               *)
(*   done       the async body returned                                    *)
(***************************************************************************)
IdleRequest ==
    [pc |-> "idle", n |-> 0, attempt |-> 0, excludedEmails |-> {},
     account |-> NoAccount, selNow |-> 0, stale |-> {}, token |-> 0,
     forwardedAny |-> FALSE, up |-> <<>>, stream |-> <<>>, ended |-> 0,
     calls |-> 0, headers |-> {}, lastCall |-> [email |-> NoAccount, token |-> 0],
     selections |-> 0, thrown |-> NoException, manual |-> NoAccount,
     dropped |-> NoAccount, cancelled |-> FALSE,
     atCancel |-> [calls |-> 0, selections |-> 0], controllers |-> <<>>,
     refreshRead |-> Undefined, marks |-> {}, seen |-> {}]

\* refreshRead is the refresh token ensureValidToken passed to the token
\* endpoint; marks are the cooldowns handleQuotaExceeded set for this
\* request: the account, the time it was set and the time it ends; seen
\* are the cooldowns that either request had set when the activateBestAccount
\* call of this attempt started.
\* stream.push(event) / stream.end(): the pushes the caller's stream
\* received, in order, and the number of end() calls.
push(r, event) == [r EXCEPT !.stream = Append(r.stream, event)]
end(r) == [r EXCEPT !.ended = r.ended + 1]

\* An exception with this message is raised inside the try block.
throw(r, message) == [r EXCEPT !.thrown = message]

\* Mutant of catch: the exception is swallowed, the stream is only ended.
catch_Swallow(r) == [end(r) EXCEPT !.pc = "done"]

\* The catch block: one synthetic error event carrying getErrorMessage(e),
\* then end(); the async body returns.
catch(r) ==
    [end(push(r, SyntheticError(r.thrown))) EXCEPT !.pc = "done"]

\* The wrapper is called: the stream is created and the async body starts.
StartRequest ==
    /\ req.pc \in {"idle", "done"}
    /\ env.requests > 0
    /\ req' = [IdleRequest EXCEPT !.pc = "select", !.n = req.n + 1]
    /\ env' = [env EXCEPT !.requests = env.requests - 1]
    /\ UNCHANGED <<accounts, activeEmail, disk, usageCache, now, pick,
                   manualEmail, peer, op>>

\* Head of `for (attempt = 0; attempt <= MAX_ROTATION_RETRIES; attempt++)`
\* and activateBestAccount up to its await: now is read,
\* clearExpiredExhaustion runs, refreshUsageIfStale computes the stale
\* accounts and starts their refreshes.  When the loop condition is false
\* the body returns with nothing pushed and the stream not ended.
LoopCondition(attempt) == attempt <= MAX_ROTATION_RETRIES

BeginAttemptFrom(r) ==
    /\ r.pc = "select"
    /\ IF LoopCondition(r.attempt)
       THEN LET st == clearExpiredExhaustion(Store, now)
            IN  /\ SetStore(st)
                /\ req' = [r EXCEPT
                        !.pc = "refreshing",
                        !.account = NoAccount,
                        !.selNow = now,
                        !.stale = StaleEmails(st.accounts, usageCache, now),
                        !.selections = r.selections + 1,
                        !.seen = r.marks \cup peer.marks]
       ELSE /\ req' = [r EXCEPT !.pc = "done"]
            /\ UNCHANGED <<accounts, activeEmail, disk>>
    /\ UNCHANGED <<usageCache, now, env, pick, op>>

BeginAttempt == BeginAttemptFrom(req)

\* The attempt of the wrapper of part_000, which knows no manual pin.
Select == BeginAttempt /\ UNCHANGED <<manualEmail, peer>>

\* ensureValidToken(account), called at time t0 and settled at time t: the
\* stored token while it is fresh; else the token endpoint is called once,
\* and either the account is overwritten and the store saved, or the call
\* raises.  tokenCalls counts the calls of the token endpoint.
ensureValidToken_AlwaysRefresh(st, email, t0, t, refreshOk) ==
    LET st1 == tokenRefreshed(st, email, t)
    IN  IF refreshOk
        THEN [st |-> st1, token |-> AccountOf(st1.accounts, email).accessToken,
              raised |-> FALSE, tokenCalls |-> 1]
        ELSE [st |-> st, token |-> Undefined, raised |-> TRUE,
              tokenCalls |-> 1]

ensureValidToken(st, email, t0, t, refreshOk) ==
    LET st1 == tokenRefreshed(st, email, t)
    IN  IF TokenFresh(AccountOf(st.accounts, email), t0)
        THEN [st |-> st, token |-> AccountOf(st.accounts, email).accessToken,
              raised |-> FALSE, tokenCalls |-> 0]
        ELSE IF refreshOk
        THEN [st |-> st1, token |-> AccountOf(st1.accounts, email).accessToken,
              raised |-> FALSE, tokenCalls |-> 1]
        ELSE [st |-> st, token |-> Undefined, raised |-> TRUE,
              tokenCalls |-> 1]

\* The message of the exception of a usage request that failed.
UsageFetchMessage == "Usage request failed"

\* What refreshUsageForAccount leaves and returns when nothing happened.
RefreshResult(st, cache) ==
    [st |-> st, cache |-> cache, has |-> FALSE, usage |-> NoSnapshot,
     warned |-> FALSE, raised |-> FALSE, tokenCalls |-> 0, fetchCalls |-> 0]

\* Mutant of refreshUsageForAccount: the try/catch is missing, a failure of
\* the token refresh or of the fetch raises.
refreshUsageForAccount_NoCatch(st, cache, email, force, t0, t, outcome) ==
    LET tok == ensureValidToken(st, email, t0, t, outcome.tokenOk)
        result == RefreshResult(st, cache)
    IN  IF /\ HasUsage(cache, email)
           /\ ~force
           /\ t0 - cache[email].fetchedAt < USAGE_CACHE_TTL_MS
        THEN [result EXCEPT !.has = TRUE, !.usage = cache[email]]
        ELSE IF tok.raised
        THEN [result EXCEPT !.raised = TRUE, !.tokenCalls = tok.tokenCalls]
        ELSE IF outcome.ok
        THEN [result EXCEPT !.st = tok.st,
                            !.cache = CacheSet(cache, email, outcome.usage),
                            !.has = TRUE, !.usage = outcome.usage,
                            !.tokenCalls = tok.tokenCalls, !.fetchCalls = 1]
        ELSE [result EXCEPT !.st = tok.st, !.raised = TRUE,
                            !.tokenCalls = tok.tokenCalls, !.fetchCalls = 1]

\* refreshUsageForAccount(account, {force}), called at time t0 and settled
\* at time t.  outcome is what the token endpoint and the usage endpoint do
\* when they are called.  A snapshot younger than the TTL is returned
\* without going upstream unless force is set; a fetched snapshot is stored
\* and returned; a failure is reported by a warning and undefined returned.
refreshUsageForAccount(st, cache, email, force, t0, t, outcome) ==
    LET tok == ensureValidToken(st, email, t0, t, outcome.tokenOk)
        result == RefreshResult(st, cache)
    IN  IF /\ HasUsage(cache, email)
           /\ ~force
           /\ t0 - cache[email].fetchedAt < USAGE_CACHE_TTL_MS
        THEN [result EXCEPT !.has = TRUE, !.usage = cache[email]]
        ELSE IF tok.raised
        THEN [result EXCEPT !.warned = TRUE, !.tokenCalls = tok.tokenCalls]
        ELSE IF outcome.ok
        THEN [result EXCEPT !.st = tok.st,
                            !.cache = CacheSet(cache, email, outcome.usage),
                            !.has = TRUE, !.usage = outcome.usage,
                            !.tokenCalls = tok.tokenCalls, !.fetchCalls = 1]
        ELSE [result EXCEPT !.st = tok.st, !.warned = TRUE,
                            !.tokenCalls = tok.tokenCalls, !.fetchCalls = 1]

\* refreshUsageIfStale once its Promise.all settled: every stale account
\* was refreshed with force: true.  The refreshes run side by side, each
\* writes its own account and its own cache entry, and each token refresh
\* saves the store.  The Promise.all rejects when one of them raises.
refreshUsageIfStale(st, cache, emails, t0, t, outcome) ==
    LET One(e) == refreshUsageForAccount(st, cache, e, TRUE, t0, t,
                                         outcome[e])
        accts == [i \in DOMAIN st.accounts |->
                    IF /\ st.accounts[i].email \in emails
                       /\ getAccount(st.accounts, st.accounts[i].email) = i
                    THEN One(st.accounts[i].email).st.accounts[i]
                    ELSE st.accounts[i]]
    IN  [st |-> IF accts = st.accounts THEN st
                ELSE [save([st EXCEPT !.accounts = accts]) EXCEPT
                        !.writes = st.writes + Cardinality(
                            {e \in emails : One(e).st.writes > st.writes})],
         cache |-> [e \in (DOMAIN cache)
                            \cup {x \in emails : HasUsage(One(x).cache, x)} |->
                        IF e \in emails THEN One(e).cache[e] ELSE cache[e]],
         raised |-> \E e \in emails : One(e).raised,
         fetched |-> {e \in emails : One(e).fetchCalls > 0}]

\* Mutant of Selected: any account that did not fail in this request may be
\* returned, also one in cooldown.
Selected_IgnoresCooldown(accts, cache, excludeEmails, t) ==
    LET emails == {accts[i].email : i \in DOMAIN accts} \ excludeEmails
    IN  IF emails = {} THEN {NoAccount} ELSE emails

Selected(accts, cache, excludeEmails, t) ==
    pickBestAccount(accts, cache, excludeEmails, t)

\* activateBestAccount({excludeEmails}), called at time t0 and settled at
\* time t: the possible results, each with the store and the cache it
\* leaves and the e-mail of the account it returns.
activateBestAccount(st, cache, excludeEmails, t0, t, outcome) ==
    LET st1 == clearExpiredExhaustion(st, t0)
        r == refreshUsageIfStale(st1, cache,
                                 StaleEmails(st1.accounts, cache, t0),
                                 t0, t, outcome)
    IN  {[st |-> IF selected = NoAccount THEN r.st
                 ELSE setActiveAccount(r.st, selected, t),
          cache |-> r.cache,
          selected |-> selected] :
            selected \in Selected(r.st.accounts, r.cache, excludeEmails, t0)}

\* Mutant of AfterSelection: the `if (!account) throw` is missing.
AfterSelection_NoCheck(r, selected) ==
    [r EXCEPT !.pc = "selected", !.account = selected]

\* The wrapper after `await activateBestAccount(...)`: no account raises.
AfterSelection(r, selected) ==
    IF selected = NoAccount
    THEN catch(throw(r, NoAccountsMessage))
    ELSE [r EXCEPT !.pc = "selected", !.account = selected]

\* activateBestAccount after its await: the refreshes of refreshUsageIfStale
\* have all settled (each stored a snapshot or failed with a warning, and
\* refreshed its account's token when that was due at the time of the
\* call); pickBestAccount runs with the now read before the await and the
\* selected account is made active.
RefreshDone ==
    /\ req.pc = "refreshing"
    /\ \E outcome \in
            [req.stale -> RefreshOutcomes(FALSE, env.usageUp, now)] :
         /\ \A e \in req.stale :
                outcome[e] \in
                    RefreshOutcomes(TokenFresh(AccountOf(accounts, e),
                                               req.selNow),
                                    env.usageUp, now)
         /\ \E r \in {refreshUsageIfStale(Store, usageCache, req.stale,
                                          req.selNow, now, outcome)} :
                /\ usageCache' = r.cache
                /\ IF r.raised
                   THEN /\ SetStore(r.st)
                        /\ req' = catch(throw([req EXCEPT !.stale = {}],
                                              UsageFetchMessage))
                   ELSE \E selected \in Selected(r.st.accounts, r.cache,
                                                 req.excludedEmails,
                                                 req.selNow) :
                         /\ SetStore(IF selected = NoAccount THEN r.st
                                     ELSE setActiveAccount(r.st, selected,
                                                           now))
                         /\ req' = AfterSelection([req EXCEPT !.stale = {}],
                                                  selected)
    /\ UNCHANGED <<now, env, pick, manualEmail, peer, op>>

\* Mutant of EnsureValidToken: the token is that of the pool's active
\* account, not that of the account of the attempt.
EnsureValidToken_ActiveAccount ==
    /\ req.pc = "selected"
    /\ LET a == AccountOf(accounts, activeEmail)
       IN  IF TokenFresh(a, now)
           THEN req' = [req EXCEPT !.pc = "call", !.token = a.accessToken]
           ELSE req' = [req EXCEPT !.pc = "tokenWait",
                                   !.refreshRead = a.refreshToken]
    /\ UNCHANGED <<accounts, activeEmail, disk, usageCache, now, env, pick,
                   manualEmail, peer, op>>

\* ensureValidToken(account) in the wrapper: the stored token when it is
\* fresh, else the token endpoint is called.
EnsureValidToken ==
    /\ req.pc = "selected"
    /\ LET a == AccountOf(accounts, req.account)
       IN  IF TokenFresh(a, now)
           THEN req' = [req EXCEPT !.pc = "call", !.token = a.accessToken]
           ELSE req' = [req EXCEPT !.pc = "tokenWait",
                                   !.refreshRead = a.refreshToken]
    /\ UNCHANGED <<accounts, activeEmail, disk, usageCache, now, env, pick,
                   manualEmail, peer, op>>

TokenRefreshOk ==
    /\ req.pc = "tokenWait"
    /\ LET st == tokenRefreshed(Store, req.account, now)
       IN  /\ SetStore(st)
           /\ req' = [req EXCEPT
                   !.pc = "call",
                   !.token = AccountOf(st.accounts, req.account).accessToken]
    /\ UNCHANGED <<usageCache, now, env, pick, manualEmail, peer, op>>

\* Mutant of TokenRefreshFail: the failure is treated like a quota error,
\* the account is excluded and the next attempt starts.
TokenRefreshFail_Retry ==
    /\ req.pc = "tokenWait"
    /\ req' = [req EXCEPT !.pc = "select",
                          !.excludedEmails = req.excludedEmails \cup {req.account},
                          !.attempt = req.attempt + 1]
    /\ UNCHANGED <<accounts, activeEmail, disk, usageCache, now, env, pick,
                   manualEmail, peer, op>>

\* refreshOpenAICodexToken rejects: the exception reaches the catch block.
TokenRefreshFail ==
    /\ req.pc = "tokenWait"
    /\ req' = catch(throw(req, TokenRefreshMessage))
    /\ UNCHANGED <<accounts, activeEmail, disk, usageCache, now, env, pick,
                   manualEmail, peer, op>>

\* Mutant of createLinkedAbortController: the controller of the attempt
\* before is handed out again when there is one.
createLinkedAbortController_Shared(r) ==
    IF r.controllers = <<>>
    THEN [aborted |-> r.cancelled, linked |-> ~r.cancelled]
    ELSE r.controllers[Len(r.controllers)]

\* createLinkedAbortController(options?.signal): a new controller, aborted
\* at once when the caller's signal is aborted, else linked to it by an
\* abort listener.  r.cancelled is options.signal.aborted.
createLinkedAbortController(r) ==
    [aborted |-> r.cancelled, linked |-> ~r.cancelled]

\* controller.abort() on the controller of the latest attempt.
abort(controllers) ==
    [controllers EXCEPT ![Len(controllers)].aborted = TRUE]

\* The caller's signal fires its abort listeners.
dispatchAbort(controllers) ==
    [i \in DOMAIN controllers |->
        IF controllers[i].linked
        THEN [aborted |-> TRUE, linked |-> FALSE]
        ELSE controllers[i]]

\* Mutant of Invoke: the header names the active account of the store, not
\* the account of this attempt.
Invoke_ActiveHeader(r) ==
    [r EXCEPT !.calls = r.calls + 1,
              !.headers = r.headers \cup {activeEmail},
              !.lastCall = [email |-> activeEmail, token |-> r.token],
              !.forwardedAny = FALSE,
              !.up = <<>>,
              !.controllers = Append(r.controllers,
                                     createLinkedAbortController(r))]

\* The attempt's abort controller is created and baseProvider.streamSimple
\* is invoked with the X-Multicodex-Account header, the token and the
\* controller's signal; forwardedAny and retry start false.  calls counts
\* the invocations of this request, headers is the set of the e-mails they
\* carried, lastCall the header and the apiKey of the latest, controllers
\* the abort controllers of the attempts in order.
Invoke(r) ==
    [r EXCEPT !.calls = r.calls + 1,
              !.headers = r.headers \cup {r.account},
              !.lastCall = [email |-> r.account, token |-> r.token],
              !.forwardedAny = FALSE,
              !.up = <<>>,
              !.controllers = Append(r.controllers,
                                     createLinkedAbortController(r))]

CallUpstream ==
    /\ req.pc = "call"
    /\ req' = [Invoke(req) EXCEPT !.pc = "streaming"]
    /\ UNCHANGED <<accounts, activeEmail, disk, usageCache, now, env, pick,
                   manualEmail, peer, op>>

\* The upstream call itself raises.
CallUpstreamThrows ==
    /\ req.pc = "call"
    /\ req' = catch(throw(Invoke(req), UpstreamExceptionMessage))
    /\ UNCHANGED <<accounts, activeEmail, disk, usageCache, now, env, pick,
                   manualEmail, peer, op>>

\* Mutant of RetryEligible: output already forwarded does not stop a retry.
RetryEligible_IgnoresForwarded(isQuota, forwardedAny, attempt) ==
    isQuota /\ attempt < MAX_ROTATION_RETRIES

\* Mutant of RetryEligible: the retry budget is not tested.
RetryEligible_NoBudget(isQuota, forwardedAny, attempt) ==
    isQuota /\ ~forwardedAny

\* The retry test of the error branch.
RetryEligible(isQuota, forwardedAny, attempt) ==
    isQuota /\ ~forwardedAny /\ attempt < MAX_ROTATION_RETRIES

\* Mutant of OnEvent: forwardedAny is not set.
OnEvent_NoFlag(type) ==
    /\ req.pc = "streaming"
    /\ type = "text" => Len(req.up) < MaxPartials
    /\ LET event == UpstreamEvent(type, <<>>, req.attempt, Len(req.up) + 1)
           r1 == [req EXCEPT !.up = Append(req.up, event)]
           r2 == push(r1, withProvider(event, PROVIDER_ID))
       IN  req' = IF type = "done" THEN [end(r2) EXCEPT !.pc = "done"] ELSE r2
    /\ UNCHANGED <<accounts, activeEmail, disk, usageCache, now, env, pick,
                   manualEmail, peer, op>>

\* One iteration of the for-await loop on an event that is not an error:
\* it is forwarded; done ends the request.
OnEvent(type) ==
    /\ req.pc = "streaming"
    /\ type = "text" => Len(req.up) < MaxPartials
    /\ LET event == UpstreamEvent(type, <<>>, req.attempt, Len(req.up) + 1)
           r1 == [req EXCEPT !.up = Append(req.up, event),
                             !.forwardedAny = TRUE]
           r2 == push(r1, withProvider(event, PROVIDER_ID))
       IN  req' = IF type = "done" THEN [end(r2) EXCEPT !.pc = "done"] ELSE r2
    /\ UNCHANGED <<accounts, activeEmail, disk, usageCache, now, env, pick,
                   manualEmail, peer, op>>

\* Mutant of OnError: handleQuotaExceeded is started but not awaited, the
\* loop goes on to its next iteration at once.
OnError_NoAwait(msg) ==
    /\ req.pc = "streaming"
    /\ LET event == UpstreamEvent("error", msg, req.attempt, Len(req.up) + 1)
           r1 == [req EXCEPT !.up = Append(req.up, event)]
       IN  IF RetryEligible(isQuotaErrorMessage(msg), req.forwardedAny,
                            req.attempt)
           THEN req' = [r1 EXCEPT !.pc = "select",
                                  !.excludedEmails =
                                        r1.excludedEmails \cup {r1.account},
                                  !.attempt = r1.attempt + 1,
                                  !.controllers = abort(r1.controllers)]
           ELSE req' = [end(push(r1, withProvider(event, PROVIDER_ID)))
                            EXCEPT !.pc = "done"]
    /\ UNCHANGED <<accounts, activeEmail, disk, usageCache, now, env, pick,
                   manualEmail, peer, op>>

\* An error event.  Retry-eligible: handleQuotaExceeded is called (its
\* forced usage refresh goes upstream) and awaited.  Otherwise the event is
\* forwarded and the request ends.
OnError(msg) ==
    /\ req.pc = "streaming"
    /\ LET event == UpstreamEvent("error", msg, req.attempt, Len(req.up) + 1)
           r1 == [req EXCEPT !.up = Append(req.up, event)]
       IN  IF RetryEligible(isQuotaErrorMessage(msg), req.forwardedAny,
                            req.attempt)
           THEN req' = [r1 EXCEPT !.pc = "quotaWait", !.selNow = now]
           ELSE req' = [end(push(r1, withProvider(event, PROVIDER_ID)))
                            EXCEPT !.pc = "done"]
    /\ UNCHANGED <<accounts, activeEmail, disk, usageCache, now, env, pick,
                   manualEmail, peer, op>>

\* Mutant of OnFinished: the body returns without ending the stream.
OnFinished_NoEnd ==
    /\ req.pc = "streaming"
    /\ req' = [req EXCEPT !.pc = "done"]
    /\ UNCHANGED <<accounts, activeEmail, disk, usageCache, now, env, pick,
                   manualEmail, peer, op>>

\* The upstream stream finishes without done or error.
OnFinished ==
    /\ req.pc = "streaming"
    /\ req' = [end(req) EXCEPT !.pc = "done"]
    /\ UNCHANGED <<accounts, activeEmail, disk, usageCache, now, env, pick,
                   manualEmail, peer, op>>

\* The upstream stream raises while it is iterated.
OnThrow ==
    /\ req.pc = "streaming"
    /\ req' = catch(throw(req, UpstreamExceptionMessage))
    /\ UNCHANGED <<accounts, activeEmail, disk, usageCache, now, env, pick,
                   manualEmail, peer, op>>

\* Mutant of CooldownUntil: a known reset time is used without the test
\* that it lies in the future.
CooldownUntil_NoFutureTest(hasUsage, usage, t) ==
    LET resetAt == IF hasUsage THEN getNextResetAt(usage) ELSE Undefined
        fallback == t + QUOTA_COOLDOWN_MS
    IN  IF resetAt # Undefined /\ resetAt # 0 THEN resetAt ELSE fallback

\* handleQuotaExceeded's cooldown: the next reset when it is known and in
\* the future, else now + QUOTA_COOLDOWN_MS.  usage is the value
\* refreshUsageForAccount returned (undefined after a failure).
CooldownUntil(hasUsage, usage, t) ==
    LET resetAt == IF hasUsage THEN getNextResetAt(usage) ELSE Undefined
        fallback == t + QUOTA_COOLDOWN_MS
    IN  IF resetAt # Undefined /\ resetAt # 0 /\ resetAt > t
        THEN resetAt ELSE fallback

\* Mutant of Retry: the failed e-mail is not added to the exclusion set.
Retry_NoExclude(r) ==
    [r EXCEPT !.pc = "select", !.attempt = r.attempt + 1,
              !.controllers = abort(r.controllers)]

\* excludedEmails.add(account.email); abort; retry = true; break; continue:
\* the loop goes to its next iteration.
Retry(r) ==
    [r EXCEPT !.pc = "select",
              !.excludedEmails = r.excludedEmails \cup {r.account},
              !.attempt = r.attempt + 1,
              !.controllers = abort(r.controllers)]

\* Mutant of handleQuotaExceeded: markExhausted is not called.
handleQuotaExceeded_NoMark(st, cache, email, t0, t, outcome) ==
    LET r == refreshUsageForAccount(st, cache, email, TRUE, t0, t, outcome)
        until == CooldownUntil(r.has, r.usage, t)
    IN  [st |-> r.st, cache |-> r.cache, raised |-> r.raised, refresh |-> r,
         until |-> until]

\* handleQuotaExceeded(account), called at time t0 and settled at time t:
\* the forced usage refresh, then markExhausted until the cooldown computed
\* from what the refresh returned and the now read after the await.
handleQuotaExceeded(st, cache, email, t0, t, outcome) ==
    LET r == refreshUsageForAccount(st, cache, email, TRUE, t0, t, outcome)
        until == CooldownUntil(r.has, r.usage, t)
    IN  [st |-> IF r.raised THEN r.st ELSE markExhausted(r.st, email, until),
         cache |-> r.cache, raised |-> r.raised, refresh |-> r,
         until |-> until]

\* handleQuotaExceeded settles; then the wrapper excludes the e-mail, aborts
\* the attempt and continues with the next attempt.
QuotaSettled ==
    /\ req.pc = "quotaWait"
    /\ \E outcome \in
            RefreshOutcomes(TokenFresh(AccountOf(accounts, req.account),
                                       req.selNow),
                            env.usageUp, now) :
         \E h \in {handleQuotaExceeded(Store, usageCache, req.account,
                                       req.selNow, now, outcome)} :
             /\ usageCache' = h.cache
             /\ SetStore(h.st)
             /\ req' = IF h.raised
                       THEN catch(throw(req, UsageFetchMessage))
                       ELSE [Retry(req) EXCEPT
                                !.marks = req.marks \cup
                                    {[email |-> req.account, at |-> now,
                                      until |-> h.until]}]
    /\ UNCHANGED <<now, env, pick, op>>

QuotaHandled == QuotaSettled /\ UNCHANGED <<manualEmail, peer>>

\* Time passes.
Tick ==
    /\ env.ticks > 0
    /\ now' = now + TickMs
    /\ env' = [env EXCEPT !.ticks = env.ticks - 1]
    /\ UNCHANGED <<accounts, activeEmail, disk, usageCache, pick, req,
                   manualEmail, peer, op>>

(***************************************************************************)
(* Specification of the stream wrapper over the account manager            *)
(***************************************************************************)
\* Tokens as stored are fresh at time 0 and due for a refresh one tick on.
InitialExpiresAt == TOKEN_MARGIN_MS + TickMs

InitialPool(n) ==
    [i \in 1..n |-> Account(i, 0, InitialExpiresAt, Undefined, Undefined)]

\* The environment of a run: whether the usage endpoint answers, how often
\* the clock still advances, how many requests are still made, and whether
\* the storage file can be written.
Env(usageUp, ticks, requests) ==
    [usageUp |-> usageUp, ticks |-> ticks, requests |-> requests,
     diskOk |-> TRUE]

\* A pool of up to SmallPool accounts in the full environment, or the large
\* pool with the usage endpoint down, the clock standing and one request.
Init ==
    /\ \/ /\ \E n \in 0..SmallPool : accounts = InitialPool(n)
          /\ \E up \in BOOLEAN : env = Env(up, MaxTicks, MaxRequests)
       \/ /\ accounts = InitialPool(NumAccounts)
          /\ env = Env(FALSE, 0, 1)
    /\ activeEmail = IF Len(accounts) = 0 THEN NoAccount ELSE 1
    /\ disk = [accounts |-> accounts, activeEmail |-> activeEmail]
    /\ usageCache = <<>>
    /\ now = 0
    /\ pick = PickIdle
    /\ req = IdleRequest
    /\ manualEmail = NoAccount
    /\ peer = IdleRequest
    /\ op = NoOp

RequestStep ==
    \/ Select
    \/ RefreshDone
    \/ EnsureValidToken
    \/ TokenRefreshOk
    \/ TokenRefreshFail
    \/ CallUpstream
    \/ CallUpstreamThrows
    \/ \E type \in {"text", "done"} : OnEvent(type)
    \/ \E msg \in ErrorMessages : OnError(msg)
    \/ OnFinished
    \/ OnThrow
    \/ QuotaHandled

Next ==
    \/ StartRequest
    \/ RequestStep
    \/ Tick

Spec == Init /\ [][Next]_vars

FairSpec == Spec /\ WF_vars(RequestStep)

(***************************************************************************)
(* The manual pin.  The wrapper and the manager of part_000 know no pin;   *)
(* the pin, getAvailableManualAccount, clearManualAccount and the two      *)
(* places where the wrapper consults them are modelled from sections 4.5    *)
(* and 4.6 of the specification.  req.manual is the pinned e-mail an        *)
(* attempt of the request was made with, req.dropped the pinned e-mail the *)
(* request dropped at selection.                                           *)
(***************************************************************************)
\* getAvailableManualAccount(): the pinned account when it is in the pool
\* and currently available, else none.
getAvailableManualAccount(accts, manual, t) ==
    IF /\ manual # NoAccount
       /\ getAccount(accts, manual) # 0
       /\ isAccountAvailable(AccountOf(accts, manual), t)
    THEN manual
    ELSE NoAccount

\* clearManualAccount(): the pin is dropped.
clearManualAccount == NoAccount

\* SELECT_ACCOUNT with a pin that is available: the pinned account is the
\* account of the attempt; activateBest is not called, no usage is
\* refreshed.
SelectManual ==
    /\ req.pc = "select"
    /\ LoopCondition(req.attempt)
    /\ getAvailableManualAccount(accounts, manualEmail, now) # NoAccount
    /\ req' = [req EXCEPT !.pc = "selected",
                          !.account = manualEmail,
                          !.manual = manualEmail]
    /\ UNCHANGED <<accounts, activeEmail, disk, usageCache, now, env, pick,
                   manualEmail, peer, op>>

\* SELECT_ACCOUNT otherwise: a pin that proved unusable is dropped and
\* activateBest is called.
SelectAutomatic ==
    /\ getAvailableManualAccount(accounts, manualEmail, now) = NoAccount
    /\ BeginAttemptFrom([req EXCEPT !.dropped =
                            IF manualEmail # NoAccount /\ LoopCondition(req.attempt)
                            THEN manualEmail ELSE req.dropped])
    /\ manualEmail' = clearManualAccount
    /\ UNCHANGED peer

\* A retry-eligible quota error: as in QuotaHandled, and the pin is cleared
\* when the failed account was the pinned one.
QuotaHandledManual ==
    /\ QuotaSettled
    /\ manualEmail' = IF manualEmail = req.account
                      THEN clearManualAccount
                      ELSE manualEmail
    /\ UNCHANGED peer

\* Pools of up to SmallPool accounts and a pin: the pinned account is
\* available, or in cooldown until the clock advances, or not in the pool.
ManualInit ==
    /\ \E n \in 1..SmallPool, until \in {Undefined, TickMs} :
          /\ manualEmail \in 1..(n + 1)
          /\ accounts =
                [i \in 1..n |->
                    Account(i, 0, InitialExpiresAt, Undefined,
                            IF i = manualEmail THEN until ELSE Undefined)]
    /\ \E up \in BOOLEAN : env = Env(up, MaxTicks, MaxRequests)
    /\ activeEmail = 1
    /\ disk = [accounts |-> accounts, activeEmail |-> activeEmail]
    /\ usageCache = <<>>
    /\ now = 0
    /\ pick = PickIdle
    /\ req = IdleRequest
    /\ peer = IdleRequest
    /\ op = NoOp

ManualRequestStep ==
    \/ SelectManual
    \/ SelectAutomatic
    \/ RefreshDone
    \/ EnsureValidToken
    \/ TokenRefreshOk
    \/ TokenRefreshFail
    \/ CallUpstream
    \/ CallUpstreamThrows
    \/ \E type \in {"text", "done"} : OnEvent(type)
    \/ \E msg \in ErrorMessages : OnError(msg)
    \/ OnFinished
    \/ OnThrow
    \/ QuotaHandledManual

ManualNext ==
    \/ StartRequest
    \/ ManualRequestStep
    \/ Tick

SpecManual == ManualInit /\ [][ManualNext]_vars

(***************************************************************************)
(* A session of the extension of part_000: the user may choose an account  *)
(* with /multicodex-use between two requests, and the caller may cancel a  *)
(* request while its upstream call is in flight.  part_000 keeps no state  *)
(* for the choice besides activeEmail; manualEmail is here the history of  *)
(* the choice (the chosen e-mail until a quota failure on it), which no    *)
(* action of the wrapper or the manager reads.  req.cancelled tells that   *)
(* options.signal is aborted, req.atCancel what the request had done by    *)
(* then.                                                                   *)
(***************************************************************************)
\* The handler of /multicodex-use: with accounts in the pool, the user
\* selects one of them and setActiveAccount(email) is called.
MulticodexUse(email) ==
    /\ req.pc \in {"idle", "done"}
    /\ manualEmail = NoAccount
    /\ op.n = 0
    /\ Len(accounts) # 0
    /\ getAccount(accounts, email) # 0
    /\ SetStore(setActiveAccount(Store, email, now))
    /\ manualEmail' = email
    /\ op' = [NoOp EXCEPT !.n = 1, !.name = "multicodex-use",
                          !.email = email]
    /\ UNCHANGED <<usageCache, now, env, pick, req, peer>>

\* options.signal fires while the wrapper iterates the upstream stream: the
\* linked controller aborts the upstream call of the attempt.  The wrapper
\* itself never reads signal.aborted.
Cancel ==
    /\ req.pc = "streaming"
    /\ ~req.cancelled
    /\ req' = [req EXCEPT !.cancelled = TRUE,
                          !.atCancel = [calls |-> req.calls,
                                        selections |-> req.selections],
                          !.controllers = dispatchAbort(req.controllers)]
    /\ UNCHANGED <<accounts, activeEmail, disk, usageCache, now, env, pick,
                   manualEmail, peer, op>>

SessionInit ==
    /\ \E n \in 1..SmallPool : accounts = InitialPool(n)
    /\ \E up \in BOOLEAN : env = Env(up, MaxTicks, MaxRequests)
    /\ activeEmail = 1
    /\ disk = [accounts |-> accounts, activeEmail |-> activeEmail]
    /\ usageCache = <<>>
    /\ now = 0
    /\ pick = PickIdle
    /\ req = IdleRequest
    /\ manualEmail = NoAccount
    /\ peer = IdleRequest
    /\ op = NoOp

SessionRequestStep ==
    \/ Select
    \/ RefreshDone
    \/ EnsureValidToken
    \/ TokenRefreshOk
    \/ TokenRefreshFail
    \/ CallUpstream
    \/ CallUpstreamThrows
    \/ \E type \in {"text", "done"} : OnEvent(type)
    \/ \E msg \in ErrorMessages : OnError(msg)
    \/ OnFinished
    \/ OnThrow
    \/ QuotaHandledManual

SessionNext ==
    \/ \E email \in 1..SmallPool : MulticodexUse(email)
    \/ Cancel
    \/ StartRequest
    \/ SessionRequestStep
    \/ Tick

SpecSession == SessionInit /\ [][SessionNext]_vars

\* The account chosen with /multicodex-use is not in cooldown at the
\* selection of the current attempt.
ChoiceAvailable ==
    /\ manualEmail # NoAccount
    /\ getAccount(accounts, manualEmail) # 0
    /\ \/ AccountOf(accounts, manualEmail).quotaExhaustedUntil
              \in {Undefined, 0}
       \/ AccountOf(accounts, manualEmail).quotaExhaustedUntil <= req.selNow

\* C22: after the user chose account A with /multicodex-use and while A is
\* not in cooldown, the first attempt of every following request is made
\* with A, until a quota failure on A clears the choice.
C22_ChosenAccountFirst ==
    [](/\ ChoiceAvailable
       /\ req.attempt = 0
       /\ req.pc = "streaming"
       => req.lastCall.email = manualEmail)

\* C23: once the caller's cancellation signal has fired, the request makes
\* no further account selection and no further upstream call.
C23_NoAttemptAfterCancel ==
    [](req.cancelled =>
          /\ req.calls = req.atCancel.calls
          /\ req.selections = req.atCancel.selections)

(***************************************************************************)
(* Specification of the credential store: starting from an empty pool,    *)
(* the operations of the AccountManager that write the store are called    *)
(* one after the other.  op holds the latest call: its name, its e-mail    *)
(* argument and the number of writes of the durable record it made.        *)
(***************************************************************************)
MaxStoreOps == 5          \* calls made on the store
MaxStoreEmails == 2       \* e-mails that log in

\* E-mails passed to setActiveAccount and markExhausted: one more than log
\* in, so that one is never in the pool.
StoreEmails == 1..(MaxStoreEmails + 1)

\* Credentials of a login at time t: due for a refresh, or fresh.
StoreCredentials(t) ==
    {Credentials(0, t), Credentials(0, t + TokenLifetimeMs)}

\* handleQuotaExceeded's `until` at time t: the next reset, or the fallback.
StoreUntil(t) == {t + TickMs, t + QUOTA_COOLDOWN_MS}

StoreOp(name, email, st) ==
    [n |-> op.n + 1, name |-> name, email |-> email, writes |-> st.writes]

StoreCommit(name, email, st) ==
    /\ SetStore(st)
    /\ op' = StoreOp(name, email, st)
    /\ env' = [env EXCEPT !.requests = env.requests - 1]

CallAddOrUpdateAccount(email) ==
    /\ env.requests > 0
    /\ \E creds \in StoreCredentials(now) :
          StoreCommit("addOrUpdateAccount", email,
                      addOrUpdateAccount(Store, email, creds, now))
    /\ UNCHANGED <<usageCache, now, pick, req, manualEmail, peer>>

CallSetActiveAccount(email) ==
    /\ env.requests > 0
    /\ StoreCommit("setActiveAccount", email,
                   setActiveAccount(Store, email, now))
    /\ UNCHANGED <<usageCache, now, pick, req, manualEmail, peer>>

CallMarkExhausted(email) ==
    /\ env.requests > 0
    /\ \E until \in StoreUntil(now) :
          StoreCommit("markExhausted", email,
                      markExhausted(Store, email, until))
    /\ UNCHANGED <<usageCache, now, pick, req, manualEmail, peer>>

CallClearExpiredExhaustion ==
    /\ env.requests > 0
    /\ StoreCommit("clearExpiredExhaustion", NoAccount,
                   clearExpiredExhaustion(Store, now))
    /\ UNCHANGED <<usageCache, now, pick, req, manualEmail, peer>>

\* ensureValidToken(account) on an account of the pool.
CallTokenRefresh(email) ==
    /\ env.requests > 0
    /\ getAccount(accounts, email) # 0
    /\ \E refreshOk \in BOOLEAN :
          StoreCommit("ensureValidToken", email,
                      ensureValidToken(Store, email, now, now, refreshOk).st)
    /\ UNCHANGED <<usageCache, now, pick, req, manualEmail, peer>>

\* refreshUsageForAccount(account, {force: true}) on an account of the pool.
CallRefreshUsageForAccount(email) ==
    /\ env.requests > 0
    /\ getAccount(accounts, email) # 0
    /\ \E outcome \in
            RefreshOutcomes(TokenFresh(AccountOf(accounts, email), now),
                            env.usageUp, now) :
         \E r \in {refreshUsageForAccount(Store, usageCache, email, TRUE,
                                          now, now, outcome)} :
            /\ StoreCommit("refreshUsageForAccount", email, r.st)
            /\ usageCache' = r.cache
    /\ UNCHANGED <<now, pick, req, manualEmail, peer>>

CallActivateBestAccount ==
    /\ env.requests > 0
    /\ \E outcome \in
            [StaleEmails(accounts, usageCache, now) ->
                RefreshOutcomes(FALSE, env.usageUp, now)] :
         /\ \A e \in DOMAIN outcome :
                outcome[e] \in
                    RefreshOutcomes(TokenFresh(AccountOf(accounts, e), now),
                                    env.usageUp, now)
         /\ \E r \in activateBestAccount(Store, usageCache, {}, now, now,
                                         outcome) :
                /\ StoreCommit("activateBestAccount", r.selected, r.st)
                /\ usageCache' = r.cache
    /\ UNCHANGED <<now, pick, req, manualEmail, peer>>

StoreInit ==
    /\ accounts = <<>>
    /\ activeEmail = NoAccount
    /\ disk = [accounts |-> accounts, activeEmail |-> activeEmail]
    /\ usageCache = <<>>
    /\ now = 0
    /\ \E up \in BOOLEAN : env = Env(up, MaxTicks, MaxStoreOps)
    /\ pick = PickIdle
    /\ req = IdleRequest
    /\ manualEmail = NoAccount
    /\ peer = IdleRequest
    /\ op = NoOp

StoreNext ==
    \/ \E email \in 1..MaxStoreEmails : CallAddOrUpdateAccount(email)
    \/ \E email \in StoreEmails : CallSetActiveAccount(email)
    \/ \E email \in StoreEmails : CallMarkExhausted(email)
    \/ CallClearExpiredExhaustion
    \/ \E email \in 1..MaxStoreEmails : CallTokenRefresh(email)
    \/ \E email \in 1..MaxStoreEmails : CallRefreshUsageForAccount(email)
    \/ CallActivateBestAccount
    \/ Tick

SpecStore == StoreInit /\ [][StoreNext]_vars

(***************************************************************************)
(* Specification of the AccountManager operations called one at a time     *)
(* (by the commands, the session hooks and the wrapper), on a manager      *)
(* whose accounts, tokens and cached snapshots are drawn in ManagerInit.    *)
(***************************************************************************)
MaxOps == 2           \* operations called in one run

\* The time of the first operation.
ManagerNow == 2 * TickMs

\* Tokens due for a refresh now (now = expiresAt - 5 min), fresh by one
\* millisecond, and fresh until the clock advances.
ManagerExpiresAt ==
    {ManagerNow + TOKEN_MARGIN_MS, ManagerNow + TOKEN_MARGIN_MS + 1,
     ManagerNow + TOKEN_MARGIN_MS + TickMs}

\* Cached snapshots: just fetched and untouched; exactly TTL old with a
\* reset time in the future; older than the TTL with a reset in the past.
ManagerSnapshots ==
    {Snapshot(Window(0, Undefined), Window(0, Undefined), ManagerNow),
     Snapshot(Window(100, ManagerNow + 2 * TickMs), Window(50, Undefined),
              ManagerNow - USAGE_CACHE_TTL_MS),
     Snapshot(Window(100, TickMs), Window(50, Undefined), 0)}

ManagerPools ==
    {[i \in 1..n |-> Account(i, 0, expiresAt, Undefined, Undefined)] :
        n \in 1..SmallPool, expiresAt \in ManagerExpiresAt}

\* What the usage endpoint can also answer: a window whose reset time is
\* not in the future.
PastResetResponses(t) ==
    {[primary_window |-> RawWindow(TRUE, 100, TRUE, t \div 1000),
      secondary_window |-> RawWindow(TRUE, 50, FALSE, 0)]}

ManagerOutcomes(tokenFresh, up, t) ==
    RefreshOutcomes(tokenFresh, up, t)
        \cup (IF up
              THEN {Fetched(parseCodexUsageResponse(r, t)) :
                        r \in PastResetResponses(t)}
              ELSE {})

\* The record of an operation that called refreshUsageForAccount.
RefreshOp(name, email, force, outcome, r) ==
    [n |-> op.n + 1, name |-> name, email |-> email, force |-> force,
     fetchOk |-> outcome.ok, tokenCalls |-> r.tokenCalls,
     fetchCalls |-> r.fetchCalls, has |-> r.has, usage |-> r.usage,
     warned |-> r.warned, raised |-> r.raised, token |-> Undefined,
     cacheBefore |-> usageCache,
     fetched |-> IF r.fetchCalls > 0 THEN {email} ELSE {}]

CallRefreshUsage(email, force) ==
    /\ env.requests > 0
    /\ \E outcome \in
            ManagerOutcomes(TokenFresh(AccountOf(accounts, email), now),
                            env.usageUp, now) :
         LET r == refreshUsageForAccount(Store, usageCache, email, force,
                                         now, now, outcome)
         IN  /\ SetStore(r.st)
             /\ usageCache' = r.cache
             /\ op' = RefreshOp("refreshUsageForAccount", email, force,
                                outcome, r)
    /\ env' = [env EXCEPT !.requests = env.requests - 1]
    /\ UNCHANGED <<now, pick, req, manualEmail, peer>>

CallHandleQuotaExceeded(email) ==
    /\ env.requests > 0
    /\ \E outcome \in
            ManagerOutcomes(TokenFresh(AccountOf(accounts, email), now),
                            env.usageUp, now) :
         LET h == handleQuotaExceeded(Store, usageCache, email, now, now,
                                      outcome)
         IN  /\ SetStore(h.st)
             /\ usageCache' = h.cache
             /\ op' = RefreshOp("handleQuotaExceeded", email, TRUE, outcome,
                                h.refresh)
    /\ env' = [env EXCEPT !.requests = env.requests - 1]
    /\ UNCHANGED <<now, pick, req, manualEmail, peer>>

CallEnsureValidToken(email) ==
    /\ env.requests > 0
    /\ \E refreshOk \in BOOLEAN :
         LET r == ensureValidToken(Store, email, now, now, refreshOk)
         IN  /\ SetStore(r.st)
             /\ op' = [NoOp EXCEPT !.n = op.n + 1,
                                   !.name = "ensureValidToken",
                                   !.email = email,
                                   !.tokenCalls = r.tokenCalls,
                                   !.raised = r.raised,
                                   !.token = r.token,
                                   !.cacheBefore = usageCache]
    /\ env' = [env EXCEPT !.requests = env.requests - 1]
    /\ UNCHANGED <<usageCache, now, pick, req, manualEmail, peer>>

\* refreshUsageIfStale(accounts) on the whole pool, as activateBestAccount
\* calls it: now is read, the stale accounts are filtered and refreshed with
\* force: true.  op.fetched are the accounts the usage endpoint was called
\* for.
CallRefreshUsageIfStale ==
    /\ env.requests > 0
    /\ \E outcome \in
            [StaleEmails(accounts, usageCache, now) ->
                ManagerOutcomes(FALSE, env.usageUp, now)] :
         /\ \A e \in DOMAIN outcome :
                outcome[e] \in
                    ManagerOutcomes(TokenFresh(AccountOf(accounts, e), now),
                                    env.usageUp, now)
         /\ \E r \in {refreshUsageIfStale(Store, usageCache, DOMAIN outcome,
                                          now, now, outcome)} :
                /\ SetStore(r.st)
                /\ usageCache' = r.cache
                /\ op' = [NoOp EXCEPT !.n = op.n + 1,
                                      !.name = "refreshUsageIfStale",
                                      !.raised = r.raised,
                                      !.fetchCalls = Cardinality(r.fetched),
                                      !.cacheBefore = usageCache,
                                      !.fetched = r.fetched]
    /\ env' = [env EXCEPT !.requests = env.requests - 1]
    /\ UNCHANGED <<now, pick, req, manualEmail, peer>>

ManagerInit ==
    /\ accounts \in ManagerPools
    /\ activeEmail = 1
    /\ disk = [accounts |-> accounts, activeEmail |-> activeEmail]
    /\ \E S \in SUBSET (1..Len(accounts)) :
          usageCache \in [S -> ManagerSnapshots]
    /\ now = ManagerNow
    /\ \E up \in BOOLEAN : env = Env(up, MaxTicks, MaxOps)
    /\ pick = PickIdle
    /\ req = IdleRequest
    /\ manualEmail = NoAccount
    /\ peer = IdleRequest
    /\ op = NoOp

ManagerNext ==
    \/ \E email \in 1..Len(accounts), force \in BOOLEAN :
          CallRefreshUsage(email, force)
    \/ \E email \in 1..Len(accounts) : CallHandleQuotaExceeded(email)
    \/ \E email \in 1..Len(accounts) : CallEnsureValidToken(email)
    \/ CallRefreshUsageIfStale
    \/ Tick

SpecManager == ManagerInit /\ [][ManagerNext]_vars

\* The operation just called is the one named.
Called(name) == op'.n = op.n + 1 /\ op'.name = name

\* C14: handleQuotaExceeded(account) force-refreshes the account's usage
\* (it goes upstream whatever is cached) and sets quotaExhaustedUntil to
\* the next known reset time of the fetched snapshot when that time lies in
\* the future, and to now + 1 hour in every other case: no reset time
\* known, reset time not in the future, or the refresh failed.
C14_CooldownFromReset ==
    [][Called("handleQuotaExceeded") =>
        LET e == op'.email
            fetched == op'.fetchCalls = 1 /\ op'.fetchOk
            resetAt == IF fetched THEN NextResetIn(usageCache', e)
                       ELSE Undefined
        IN  /\ op'.tokenCalls + op'.fetchCalls >= 1
            /\ ~op'.raised
            /\ AccountOf(accounts', e).quotaExhaustedUntil =
                  IF resetAt # Undefined /\ resetAt > now
                  THEN resetAt
                  ELSE now + 60 * 60 * 1000]_vars

\* Witness of C14: a snapshot was fetched whose reset time is not in the
\* future, and the account is in cooldown for one hour from then.
C14_Witness ==
    /\ op.name = "handleQuotaExceeded"
    /\ op.fetchCalls = 1
    /\ op.fetchOk
    /\ op.usage.fetchedAt = NextResetIn(usageCache, op.email)
    /\ AccountOf(accounts, op.email).quotaExhaustedUntil
          = op.usage.fetchedAt + 60 * 60 * 1000

\* C15: when the usage fetch of refreshUsageForAccount fails, a warning is
\* reported, the snapshot cached before the call is returned (none only if
\* nothing was cached) and the cache is left unchanged.
C15_FailedRefreshReturnsCached ==
    (/\ op.name = "refreshUsageForAccount"
     /\ op.fetchCalls = 1
     /\ ~op.fetchOk)
        => /\ op.warned
           /\ op.has = HasUsage(op.cacheBefore, op.email)
           /\ op.has => op.usage = op.cacheBefore[op.email]
           /\ usageCache = op.cacheBefore

\* C17: while now < expiresAt - 5 minutes, a call of ensureValidToken
\* calls no token endpoint, returns the stored access token and leaves the
\* accounts and the durable record unchanged, however often it is called;
\* the token endpoint is called only when now >= expiresAt - 5 minutes.
C17_FreshTokenNoRefresh ==
    [][Called("ensureValidToken") =>
        LET a == AccountOf(accounts, op'.email)
        IN  /\ now < a.expiresAt - 5 * 60 * 1000 =>
                  /\ op'.tokenCalls = 0
                  /\ ~op'.raised
                  /\ op'.token = a.accessToken
                  /\ accounts' = accounts
                  /\ activeEmail' = activeEmail
                  /\ disk' = disk
            /\ op'.tokenCalls > 0 => now >= a.expiresAt - 5 * 60 * 1000]_vars

\* Witness of C17: the second operation of a run is an ensureValidToken on
\* a token that is fresh by one millisecond and was never refreshed; it
\* returned the stored token without a call of the token endpoint.
C17_Witness ==
    /\ op.n = 2
    /\ op.name = "ensureValidToken"
    /\ op.tokenCalls = 0
    /\ now = ManagerNow
    /\ AccountOf(accounts, op.email).expiresAt
          = ManagerNow + TOKEN_MARGIN_MS + 1
    /\ op.token = AccountOf(accounts, op.email).accessToken
    /\ disk.accounts = accounts

(***************************************************************************)
(* Specification of pickBestAccount as a pure function                     *)
(***************************************************************************)
PickInit ==
    /\ accounts = <<>>
    /\ activeEmail = NoAccount
    /\ disk = [accounts |-> <<>>, activeEmail |-> NoAccount]
    /\ usageCache = <<>>
    /\ now = 0
    /\ env = Env(FALSE, 0, 0)
    /\ req = IdleRequest
    /\ manualEmail = NoAccount
    /\ peer = IdleRequest
    /\ op = NoOp
    /\ \E accts \in PickAccountLists, usage \in PickUsageMaps,
          exclude \in SUBSET PickEmails, t \in PickNows :
            pick = [PickIdle EXCEPT !.accounts = accts, !.usage = usage,
                                    !.exclude = exclude, !.now = t]

PickCall ==
    /\ ~pick.called
    /\ \E result \in pickBestAccount(pick.accounts, pick.usage,
                                     pick.exclude, pick.now) :
          pick' = [pick EXCEPT !.called = TRUE, !.result = result]
    /\ UNCHANGED <<accounts, activeEmail, disk, usageCache, now, env, req,
                   manualEmail, peer, op>>

PickNext == PickCall

SpecPick == PickInit /\ [][PickNext]_vars

\* The account of the input list that the call returned.
PickedAccount == AccountOf(pick.accounts, pick.result)

PickAvailable(a) ==
    isAccountAvailable(a, pick.now) /\ a.email \notin pick.exclude

\* C9: pickBestAccount never returns an account whose e-mail is excluded or
\* whose quotaExhaustedUntil is later than now.
C9_NeverExcludedOrExhausted ==
    (pick.called /\ pick.result # NoAccount) =>
        /\ getAccount(pick.accounts, pick.result) # 0
        /\ pick.result \notin pick.exclude
        /\ ~(PickedAccount.quotaExhaustedUntil > pick.now)

\* Witness of C9: the call returned an account while another account,
\* untouched, was excluded or in cooldown.
C9_Witness ==
    /\ pick.called
    /\ pick.result # NoAccount
    /\ \E i \in 1..Len(pick.accounts) :
          /\ ~PickAvailable(pick.accounts[i])
          /\ UntouchedIn(pick.usage, pick.accounts[i].email)
          /\ ~UntouchedIn(pick.usage, pick.result)

\* C10: when some available, non-excluded account is untouched, the call
\* returns an untouched account.
C10_PrefersUntouched ==
    (pick.called /\ \E i \in 1..Len(pick.accounts) :
                        /\ PickAvailable(pick.accounts[i])
                        /\ UntouchedIn(pick.usage, pick.accounts[i].email))
        => /\ pick.result # NoAccount
           /\ UntouchedIn(pick.usage, pick.result)

\* Witness of C10: an untouched account without a reset time was returned
\* although a touched, available account has a known reset time.
C10_Witness ==
    /\ pick.called
    /\ pick.result # NoAccount
    /\ UntouchedIn(pick.usage, pick.result)
    /\ NextResetIn(pick.usage, pick.result) = Undefined
    /\ \E i \in 1..Len(pick.accounts) :
          /\ PickAvailable(pick.accounts[i])
          /\ ~UntouchedIn(pick.usage, pick.accounts[i].email)
          /\ NextResetIn(pick.usage, pick.accounts[i].email) # Undefined

\* The call chooses among touched accounts: no available, non-excluded
\* account is untouched.
PickAmongTouched ==
    /\ pick.called
    /\ \A i \in 1..Len(pick.accounts) :
          PickAvailable(pick.accounts[i])
              => ~UntouchedIn(pick.usage, pick.accounts[i].email)

SecondaryResetIn(usageByEmail, email) ==
    IF HasUsage(usageByEmail, email)
    THEN ResetAtOf(usageByEmail[email].secondary)
    ELSE Undefined

\* The usage map with the primary resetAt of one account replaced.
WithPrimaryReset(usageByEmail, email, resetAt) ==
    [usageByEmail EXCEPT ![email].primary.resetAt = resetAt]

\* C12: among touched accounts the selection uses only the secondary
\* (weekly) window: the returned account has the earliest secondary
\* resetAt, and replacing the primary resetAt of an account does not change
\* the selection.
C12_SecondaryWindowOnly ==
    (/\ PickAmongTouched
     /\ \E i \in 1..Len(pick.accounts) :
           /\ PickAvailable(pick.accounts[i])
           /\ SecondaryResetIn(pick.usage, pick.accounts[i].email) # Undefined)
        => /\ pick.result # NoAccount
           /\ SecondaryResetIn(pick.usage, pick.result) # Undefined
           /\ \A i \in 1..Len(pick.accounts) :
                 (/\ PickAvailable(pick.accounts[i])
                  /\ SecondaryResetIn(pick.usage, pick.accounts[i].email)
                        # Undefined)
                    => SecondaryResetIn(pick.usage, pick.result)
                          <= SecondaryResetIn(pick.usage, pick.accounts[i].email)
           /\ \A e \in DOMAIN pick.usage, r \in {3000, 5000} :
                 (/\ pick.usage[e].primary.present
                  /\ pick.usage[e].primary.resetAt # Undefined)
                    => pickBestAccount(pick.accounts,
                                       WithPrimaryReset(pick.usage, e, r),
                                       pick.exclude, pick.now)
                        = pickBestAccount(pick.accounts, pick.usage,
                                          pick.exclude, pick.now)

\* Some account of the list is available and not excluded (stated on the
\* fields, `!quotaExhaustedUntil || quotaExhaustedUntil <= now`).
PickSomeUsable ==
    \E i \in 1..Len(pick.accounts) :
        /\ pick.accounts[i].quotaExhaustedUntil \in {Undefined, 0}
              \/ pick.accounts[i].quotaExhaustedUntil <= pick.now
        /\ pick.accounts[i].email \notin pick.exclude

\* C13: the call returns no account exactly when no account is both
\* available and not excluded; otherwise it returns an available,
\* non-excluded account of the list, whatever the usage data.
C13_AbsentIffNoneUsable ==
    pick.called =>
        /\ (pick.result = NoAccount) <=> ~PickSomeUsable
        /\ pick.result # NoAccount =>
              /\ getAccount(pick.accounts, pick.result) # 0
              /\ PickedAccount.quotaExhaustedUntil \in {Undefined, 0}
                    \/ PickedAccount.quotaExhaustedUntil <= pick.now
              /\ pick.result \notin pick.exclude

\* Witness of C13: no account has usage data, one account is excluded or
\* in cooldown, and the other one was returned by the random fallback.
C13_Witness ==
    /\ pick.called
    /\ DOMAIN pick.usage = {}
    /\ Len(pick.accounts) = 2
    /\ pick.result # NoAccount
    /\ \E i \in 1..2 : ~PickAvailable(pick.accounts[i])

(***************************************************************************)
(* Properties of the stream wrapper                                        *)
(***************************************************************************)
Last(q) == q[Len(q)]

\* The events of the caller's stream that came from upstream (the synthetic
\* error of the catch block is the only other event).
IsForwarded(event) == event.attempt # Undefined
Forwarded == SelectSeq(req.stream, IsForwarded)

\* The upstream stream of the current attempt produced an error event with
\* a quota message.
QuotaErrorSeen ==
    /\ Len(req.up) > 0
    /\ Last(req.up).attempt = req.attempt
    /\ Last(req.up).type = "error"
    /\ isQuotaErrorMessage(Last(req.up).msg)

\* ... after at least one non-error event of the same attempt.
LateQuotaError == QuotaErrorSeen /\ Len(req.up) > 1

\* C1: a quota error that arrives after a forwarded non-error event of the
\* same attempt is forwarded as it is (only the provider rewritten) and
\* ends the request: the body has returned, and nothing was selected or
\* invoked beyond this attempt.
C1_LateQuotaErrorForwarded ==
    LateQuotaError =>
        /\ req.pc = "done"
        /\ Len(req.stream) = Len(req.up)
        /\ Last(req.stream) = withProvider(Last(req.up), PROVIDER_ID)
        /\ req.ended = 1
        /\ req.selections = req.attempt + 1
        /\ req.calls = req.attempt + 1
        /\ req.account \notin req.excludedEmails

C1_Witness ==
    /\ LateQuotaError
    /\ req.pc = "done"
    /\ req.attempt < MAX_ROTATION_RETRIES
    /\ Last(req.stream).type = "error"

\* C2: the upstream events in the caller's stream all come from the attempt
\* started last, in the order that attempt produced them, each once.
C2_SingleAttemptDelivery ==
    /\ Len(Forwarded) <= Len(req.up)
    /\ \A i \in 1..Len(Forwarded) :
          /\ Forwarded[i] = withProvider(req.up[i], PROVIDER_ID)
          /\ Forwarded[i].attempt = req.attempt
          /\ Forwarded[i].seq = i

\* Witness of C2: the first attempt was abandoned for a retry and the
\* second one delivered output and its terminal event.
C2_Witness ==
    /\ req.pc = "done"
    /\ req.attempt = 1
    /\ Len(Forwarded) = MaxPartials + 1
    /\ Last(req.stream).type = "done"

\* C3: one logical request invokes the upstream stream function at most
\* 6 times.
C3_AtMostSixCalls == req.calls <= 6

C3_Witness == req.calls = 6 /\ req.pc = "streaming"

\* The retry budget is spent: the attempt with index 5 failed with a quota
\* error before any output.
BudgetSpent ==
    /\ req.attempt = 5
    /\ QuotaErrorSeen
    /\ Len(req.up) = 1

\* C4: when the retry budget is spent, the error event is the terminal
\* event of the caller's stream and the request has ended.
C4_BudgetSpentTerminalError ==
    BudgetSpent =>
        /\ req.pc = "done"
        /\ req.stream = <<withProvider(Last(req.up), PROVIDER_ID)>>
        /\ req.ended = 1

C4_Witness == BudgetSpent /\ req.pc = "done" /\ req.calls = 6

\* C5: every logical request ends the caller's stream, exactly once: the
\* stream is never ended twice, and a request that started reaches the end
\* of its body with the stream ended.
C5_StreamEndedExactlyOnce ==
    /\ [](req.ended <= 1)
    /\ [](req.pc = "select" => <>(req.pc = "done" /\ req.ended = 1))

\* Witness of C5: the upstream stream finished without done or error after
\* some output, and the stream was ended.
C5_Witness ==
    /\ req.pc = "done"
    /\ req.ended = 1
    /\ req.thrown = NoException
    /\ Len(req.up) > 0
    /\ ~IsTerminal(Last(req.up))
    /\ ~IsTerminal(Last(req.stream))

\* C6: the caller's stream holds at most one terminal event and nothing
\* after it; an exception raised inside the wrapper ends the request with
\* exactly one synthetic error event that carries its message.
C6_OneTerminalEvent ==
    /\ \A i \in 1..(Len(req.stream) - 1) : ~IsTerminal(req.stream[i])
    /\ (Len(req.stream) > 0 /\ IsTerminal(Last(req.stream))) =>
            req.pc = "done" /\ req.ended = 1
    /\ req.thrown # NoException =>
          /\ req.pc = "done"
          /\ req.ended = 1
          /\ Len(req.stream) > 0
          /\ Last(req.stream) = SyntheticError(req.thrown)

\* Witness of C6: a token refresh failed after an earlier attempt was
\* abandoned, or the upstream stream raised after some output.
C6_Witness ==
    /\ req.pc = "done"
    /\ req.thrown = UpstreamExceptionMessage
    /\ Len(req.stream) > 1
    /\ Last(req.stream) = SyntheticError(UpstreamExceptionMessage)

\* C7: within one logical request no account is attempted twice: the
\* account of an attempt is none of the accounts excluded so far, the
\* calls carry pairwise different e-mails, and there is one selection and
\* at most one call per attempt.
C7_NoAccountTwice ==
    /\ Cardinality(req.headers) = req.calls
    /\ (req.pc # "select" /\ req.account # NoAccount) =>
            req.account \notin req.excludedEmails
    /\ req.calls <= req.attempt + 1
    /\ req.selections = IF req.pc \in {"idle", "select"}
                        THEN req.attempt ELSE req.attempt + 1

\* Witness of C7: after one quota error the retry runs with another account
\* although the first account is available again (its cooldown has passed).
C7_Witness ==
    /\ req.pc = "streaming"
    /\ req.attempt = 1
    /\ req.calls = 2
    /\ Cardinality(req.excludedEmails) = 1
    /\ \E e \in req.excludedEmails :
          isAccountAvailable(AccountOf(accounts, e), req.selNow)

\* activateBestAccount returned no account in the current attempt.
NoAccountSelected ==
    /\ req.pc \notin {"idle", "select", "refreshing"}
    /\ req.account = NoAccount

\* C8: when the selection yields no account, no upstream call is made for
\* that attempt and the request ends with one error event whose message
\* says that no Multicodex accounts are available.
C8_NoAccountError ==
    NoAccountSelected =>
        /\ req.pc = "done"
        /\ req.calls = req.attempt
        /\ req.thrown = NoAccountsMessage
        /\ req.stream = <<SyntheticError(NoAccountsMessage)>>
        /\ req.ended = 1

\* Witness of C8: a non-empty pool in which every account is in cooldown
\* or excluded by this request.
C8_Witness ==
    /\ NoAccountSelected
    /\ Len(accounts) > 0
    /\ req.attempt > 0
    /\ \E i \in 1..Len(accounts) : accounts[i].email \notin req.excludedEmails

\* C16: a failing usage fetch never raises out of the usage refresh, of
\* activateBestAccount or of handleQuotaExceeded and never produces an
\* error event: when the refreshes of a selection settle, the request goes
\* on with the account picked from the snapshots now cached (or fails only
\* because no account is selectable), and when handleQuotaExceeded settles
\* the next attempt starts with nothing pushed to the caller's stream.
C16_UsageFailureNeverFailsRequest ==
    [][/\ (req.pc = "refreshing" /\ req' # req) =>
            /\ req'.thrown \in {NoException, NoAccountsMessage}
            /\ req'.thrown = NoException =>
                  /\ req'.pc = "selected"
                  /\ req'.account \in
                        pickBestAccount(accounts', usageCache',
                                        req.excludedEmails, req.selNow)
                  /\ req'.stream = req.stream
            /\ req'.thrown = NoAccountsMessage =>
                  pickBestAccount(accounts', usageCache',
                                  req.excludedEmails, req.selNow)
                      = {NoAccount}
       /\ (req.pc = "quotaWait" /\ req' # req) =>
            /\ req'.thrown = NoException
            /\ req'.pc = "select"
            /\ req'.stream = <<>>
            /\ req'.ended = 0]_vars

\* Witness of C16: in the first selection of a run both accounts were
\* stale; the fetch of one failed, the snapshot of the other was stored,
\* and an account was selected.
C16_Witness ==
    /\ req.pc = "selected"
    /\ req.n = 1
    /\ req.attempt = 0
    /\ Len(accounts) = 2
    /\ Cardinality(DOMAIN usageCache) = 1

\* C18: when ensureValidToken raises in an attempt of the wrapper, the
\* upstream stream function is not invoked for that attempt, no further
\* attempt is started, no account's quotaExhaustedUntil changes, and the
\* caller receives a single synthetic error event.
C18_TokenFailureEndsRequest ==
    [][(req.pc = "tokenWait" /\ req' # req) =>
          \/ req'.pc = "call"
          \/ /\ req'.pc = "done"
             /\ req'.attempt = req.attempt
             /\ req'.selections = req.selections
             /\ req'.calls = req.calls
             /\ req'.calls = req.attempt
             /\ accounts' = accounts
             /\ req.stream = <<>>
             /\ req'.stream = <<SyntheticError(TokenRefreshMessage)>>
             /\ req'.ended = 1]_vars

\* Witness of C18: the token refresh of the second attempt failed, after the
\* first attempt was abandoned for a quota error.
C18_Witness ==
    /\ req.pc = "done"
    /\ req.thrown = TokenRefreshMessage
    /\ req.attempt = 1
    /\ req.calls = 1
    /\ req.stream = <<SyntheticError(TokenRefreshMessage)>>

\* A pin is set and the pinned account is in the pool and not in cooldown.
PinAvailable ==
    /\ manualEmail # NoAccount
    /\ getAccount(accounts, manualEmail) # 0
    /\ \/ AccountOf(accounts, manualEmail).quotaExhaustedUntil
              \in {Undefined, 0}
       \/ AccountOf(accounts, manualEmail).quotaExhaustedUntil <= now

\* The current attempt is the one made with the pinned account.
PinnedAttempt ==
    /\ req.manual # NoAccount
    /\ req.manual \notin req.excludedEmails
    /\ req.pc \in {"selected", "tokenWait", "call", "streaming", "quotaWait"}

MaxPad == 1

PadChars == {" ", "x", "7", "_", "-", "Q"}

Pads == UNION {[1..k -> PadChars] : k \in 0..MaxPad}

QuotaTokens ==
    {P429, PQuota, PUsageLimit, PRate \o <<" ">> \o PLimit,
     PRate \o <<"-">> \o PLimit, PTooMany, PLimitReached}

ToUpper(c) ==
    IF \E k \in 1..26 : LowerCase[k] = c
    THEN UpperCase[CHOOSE k \in 1..26 : LowerCase[k] = c]
    ELSE c

Cased(token, mode) ==
    [k \in 1..Len(token) |->
        IF mode = "upper" \/ (mode = "capital" /\ k = 1)
        THEN ToUpper(token[k]) ELSE token[k]]

QuotaCall(token, pre, suf, msg) ==
    [n |-> 0, name |-> "isQuotaErrorMessage", token |-> token, pre |-> pre,
     suf |-> suf, msg |-> msg, result |-> FALSE]

QuotaInit ==
    /\ accounts = <<>>
    /\ activeEmail = NoAccount
    /\ disk = [accounts |-> <<>>, activeEmail |-> NoAccount]
    /\ usageCache = <<>>
    /\ now = 0
    /\ env = Env(FALSE, 0, 0)
    /\ req = IdleRequest
    /\ manualEmail = NoAccount
    /\ peer = IdleRequest
    /\ pick = PickIdle
    /\ \/ \E token \in QuotaTokens, mode \in {"lower", "upper", "capital"},
             pre \in Pads, suf \in Pads :
               op = QuotaCall(token, pre, suf,
                              pre \o Cased(token, mode) \o suf)
       \/ \E msg \in {MsgNetwork, MsgBadRequest} :
               op = QuotaCall(<<>>, <<>>, <<>>, msg)

QuotaClassify ==
    /\ op.n = 0
    /\ op' = [op EXCEPT !.n = 1, !.result = isQuotaErrorMessage(op.msg)]
    /\ UNCHANGED <<accounts, activeEmail, disk, usageCache, now, env, pick,
                   req, manualEmail, peer>>

QuotaNext == QuotaClassify

SpecQuota == QuotaInit /\ [][QuotaNext]_vars

\* The call of isQuotaErrorMessage has returned.
Classified == op.name = "isQuotaErrorMessage" /\ op.n = 1

\* The token of the message stands next to a letter, a digit or an
\* underscore.
TokenInsideWord ==
    \/ Len(op.pre) > 0 /\ IsWordChar(op.pre[Len(op.pre)])
    \/ Len(op.suf) > 0 /\ IsWordChar(op.suf[1])

\* C24 as stated: isQuotaErrorMessage is true for every message that
\* contains one of the tokens in any letter case, wherever it stands and
\* whatever surrounds it, and false for "network error" and "bad request".
C24_EveryMessageWithToken ==
    [](Classified =>
          /\ op.token # <<>> => op.result
          /\ op.msg \in {MsgNetwork, MsgBadRequest} => ~op.result)

\* C24 as amended: isQuotaErrorMessage is true for every message that
\* contains, in any letter case, quota, usage limit, rate limit,
\* rate-limit, too many requests or limit reached, whatever surrounds the
\* token, and for every message that contains 429 neither directly
\* preceded nor directly followed by an ASCII letter, an ASCII digit or an
\* underscore; it is false for "network error" and "bad request".
C24_QuotaMessagesRecognised ==
    [](Classified =>
          /\ (op.token # <<>> /\ (op.token = P429 => ~TokenInsideWord))
                => op.result
          /\ op.msg \in {MsgNetwork, MsgBadRequest} => ~op.result)

\* Witness of C24: a token written in another letter case than the
\* pattern, with a word character before and after it, is recognised.
C24_Witness ==
    /\ Classified
    /\ op.token = PUsageLimit
    /\ op.msg # op.pre \o op.token \o op.suf
    /\ TokenInsideWord
    /\ op.result

(***************************************************************************)
(* Specification of single calls of parseCodexUsageResponse followed by    *)
(* isUsageUntouched.  op holds the call: whether there is a response at    *)
(* all (else no snapshot exists for the account), its two windows, the     *)
(* snapshot map after parsing and the result of isUsageUntouched.          *)
(***************************************************************************)
UsedPercentValues == {-5, 0, 1, 100, 120}
ResetAtValues == {0, 300}

RawWindows ==
    {NoRawWindow}
        \cup {RawWindow(FALSE, 0, FALSE, 0)}
        \cup {RawWindow(TRUE, u, FALSE, 0) : u \in UsedPercentValues}
        \cup {RawWindow(FALSE, 0, TRUE, r) : r \in ResetAtValues}
        \cup {RawWindow(TRUE, u, TRUE, r) :
                u \in UsedPercentValues, r \in ResetAtValues}

UsageCall(answered, primary, secondary) ==
    [n |-> 0, name |-> "parseCodexUsageResponse", answered |-> answered,
     data |-> [primary_window |-> primary, secondary_window |-> secondary],
     cache |-> <<>>, untouched |-> FALSE]

UsageInit ==
    /\ accounts = <<>>
    /\ activeEmail = NoAccount
    /\ disk = [accounts |-> <<>>, activeEmail |-> NoAccount]
    /\ usageCache = <<>>
    /\ now = 0
    /\ env = Env(FALSE, 0, 0)
    /\ req = IdleRequest
    /\ manualEmail = NoAccount
    /\ peer = IdleRequest
    /\ pick = PickIdle
    /\ \/ \E primary \in RawWindows, secondary \in RawWindows :
               op = UsageCall(TRUE, primary, secondary)
       \/ op = UsageCall(FALSE, NoRawWindow, NoRawWindow)

UsageParse ==
    /\ op.n = 0
    /\ LET cache == IF op.answered
                    THEN CacheSet(<<>>, 1,
                                  parseCodexUsageResponse(op.data, now))
                    ELSE <<>>
       IN  op' = [op EXCEPT !.n = 1, !.cache = cache,
                            !.untouched = UntouchedIn(cache, 1)]
    /\ UNCHANGED <<accounts, activeEmail, disk, usageCache, now, env, pick,
                   req, manualEmail, peer>>

UsageNext == UsageParse

SpecUsage == UsageInit /\ [][UsageNext]_vars

\* The call has returned.
Parsed == op.name = "parseCodexUsageResponse" /\ op.n = 1

\* The window of a snapshot has a known usedPercent equal to 0.
KnownZero(w) == w.present /\ w.usedPercent # Undefined /\ w.usedPercent = 0

\* The window of the response is missing or has neither field.
RawEmpty(w) == ~w.present \/ (~w.hasUsed /\ ~w.hasReset)

\* C25: isUsageUntouched is true if and only if the snapshot exists and its
\* primary and secondary windows both have a known usedPercent equal to 0;
\* and a window of the response with neither used_percent nor reset_at is
\* parsed to an absent window, never to a window with usedPercent 0.
C25_UntouchedIffBothZero ==
    [](Parsed =>
          /\ op.untouched <=>
                /\ 1 \in DOMAIN op.cache
                /\ KnownZero(op.cache[1].primary)
                /\ KnownZero(op.cache[1].secondary)
          /\ op.answered =>
                /\ RawEmpty(op.data.primary_window) <=>
                        ~op.cache[1].primary.present
                /\ RawEmpty(op.data.secondary_window) <=>
                        ~op.cache[1].secondary.present
                /\ (RawEmpty(op.data.primary_window)
                        \/ RawEmpty(op.data.secondary_window)) =>
                        ~op.untouched)

\* Witness of C25: the primary window of the response has no field and is
\* parsed to an absent window, the secondary window is at 0, and the
\* snapshot is not untouched.
C25_Witness ==
    /\ Parsed
    /\ op.data.primary_window.present
    /\ RawEmpty(op.data.primary_window)
    /\ ~op.cache[1].primary.present
    /\ KnownZero(op.cache[1].secondary)
    /\ ~op.untouched

\* The e-mail is the e-mail of an account of the pool.
InPool(email) == \E i \in 1..Len(accounts) : accounts[i].email = email

\* C26: after any sequence of store operations from an empty pool, no two
\* accounts of the store have the same e-mail.
C26_EmailsUnique ==
    \A i, j \in 1..Len(accounts) :
        accounts[i].email = accounts[j].email => i = j

\* Witness of C26: a login with the e-mail of the first of two accounts,
\* after the second one had been marked exhausted.
C26_Witness ==
    /\ op.name = "addOrUpdateAccount"
    /\ Len(accounts) = 2
    /\ op.email = accounts[1].email
    /\ accounts[2].quotaExhaustedUntil # Undefined

\* C27: activeEmail is unset or the e-mail of an account of the pool, and
\* setActiveAccount and markExhausted with an e-mail that is not in the
\* pool change nothing and do not write the durable record.
C27_ActiveEmailInPool ==
    /\ [](activeEmail = NoAccount \/ InPool(activeEmail))
    /\ [][(/\ Called("setActiveAccount") \/ Called("markExhausted")
           /\ ~InPool(op'.email)) =>
              /\ accounts' = accounts
              /\ activeEmail' = activeEmail
              /\ disk' = disk
              /\ op'.writes = 0]_vars

\* Witness of C27: setActiveAccount was called with an e-mail that is not
\* in the pool while another account is active.
C27_Witness ==
    /\ op.name = "setActiveAccount"
    /\ ~InPool(op.email)
    /\ activeEmail # NoAccount
    /\ Len(accounts) = 2
    /\ op.writes = 0

\* C28: addOrUpdateAccount(email, creds) leaves activeEmail equal to email;
\* for an e-mail of the pool the accounts keep their number and order and
\* the other accounts are unchanged, for a new e-mail exactly one account
\* with that e-mail is appended at the end.
C28_UpsertInPlaceOrAppend ==
    [][Called("addOrUpdateAccount") =>
          /\ activeEmail' = op'.email
          /\ IF InPool(op'.email)
             THEN /\ Len(accounts') = Len(accounts)
                  /\ \A i \in 1..Len(accounts) :
                        /\ accounts'[i].email = accounts[i].email
                        /\ accounts[i].email # op'.email =>
                              accounts'[i] = accounts[i]
             ELSE /\ Len(accounts') = Len(accounts) + 1
                  /\ \A i \in 1..Len(accounts) : accounts'[i] = accounts[i]
                  /\ accounts'[Len(accounts')].email = op'.email]_vars

\* Witness of C28: after the clock advanced, a login with the e-mail of the
\* first of two accounts made it the active one.
C28_Witness ==
    /\ op.name = "addOrUpdateAccount"
    /\ Len(accounts) = 2
    /\ op.email = accounts[1].email
    /\ activeEmail = op.email
    /\ accounts[1].lastUsed = now
    /\ now > 0

\* quotaExhaustedUntil of the account is set and not later than now.
CooldownOver(account) ==
    /\ account.quotaExhaustedUntil # Undefined
    /\ account.quotaExhaustedUntil <= now

\* C29: clearExpiredExhaustion(now) removes quotaExhaustedUntil from
\* exactly the accounts whose value is <= now, leaves the other accounts
\* unchanged, and writes the durable record once when an account changed
\* and not at all when none changed.
C29_ClearsExactlyExpired ==
    [][Called("clearExpiredExhaustion") =>
          /\ Len(accounts') = Len(accounts)
          /\ \A i \in 1..Len(accounts) :
                accounts'[i] =
                    IF CooldownOver(accounts[i])
                    THEN [accounts[i] EXCEPT !.quotaExhaustedUntil = Undefined]
                    ELSE accounts[i]
          /\ activeEmail' = activeEmail
          /\ IF \E i \in 1..Len(accounts) : CooldownOver(accounts[i])
             THEN /\ op'.writes = 1
                  /\ disk' = [accounts |-> accounts',
                              activeEmail |-> activeEmail']
             ELSE /\ op'.writes = 0
                  /\ disk' = disk]_vars

\* Witness of C29: one account was cleared by the call, the other one is
\* still in cooldown, and the record was written once.
C29_Witness ==
    /\ op.name = "clearExpiredExhaustion"
    /\ op.writes = 1
    /\ Len(accounts) = 2
    /\ \E i, j \in 1..2 :
          /\ accounts[i].quotaExhaustedUntil = Undefined
          /\ accounts[j].quotaExhaustedUntil # Undefined
          /\ accounts[j].quotaExhaustedUntil > now

\* C30: after every operation on the store has returned, the durable
\* record equals the accounts and the activeEmail in memory.
C30_DurableEqualsMemory ==
    disk = [accounts |-> accounts, activeEmail |-> activeEmail]

\* Witness of C30: ensureValidToken refreshed the token of an account and
\* wrote the record.
C30_Witness ==
    /\ op.name = "ensureValidToken"
    /\ op.writes = 1
    /\ InPool(op.email)
    /\ AccountOf(accounts, op.email).accessToken = 1
    /\ disk.accounts = accounts

(***************************************************************************)
(* The stream wrapper over a storage file whose writes may fail            *)
(***************************************************************************)
\* writeFileSync starts failing (a full disk, a read-only file) and keeps
\* failing for the rest of the run.
DiskFault ==
    /\ env.diskOk
    /\ env' = [env EXCEPT !.diskOk = FALSE]
    /\ UNCHANGED <<accounts, activeEmail, disk, usageCache, now, pick, req,
                   manualEmail, peer, op>>

DiskInit ==
    /\ accounts = InitialPool(SmallPool)
    /\ \E ok \in BOOLEAN :
            env = [Env(TRUE, 1, MaxRequests) EXCEPT !.diskOk = ok]
    /\ activeEmail = 1
    /\ disk = [accounts |-> accounts, activeEmail |-> activeEmail]
    /\ usageCache = <<>>
    /\ now = 0
    /\ pick = PickIdle
    /\ req = IdleRequest
    /\ manualEmail = NoAccount
    /\ peer = IdleRequest
    /\ op = NoOp

DiskNext ==
    \/ StartRequest
    \/ RequestStep
    \/ Tick
    \/ DiskFault

SpecDisk == DiskInit /\ [][DiskNext]_vars

\* The exceptions the wrapper's try block can meet.
RequestFailures ==
    {NoAccountsMessage, TokenRefreshMessage, UpstreamExceptionMessage}

\* C31: while the writes of the durable record fail, a step of the request
\* that mutates the store leaves the durable record as it was, keeps its
\* change in memory (the cooldown of the account that hit its quota, the
\* active account and its lastUsed, the refreshed token), selects on the
\* in-memory accounts, and raises nothing but the failures of selection,
\* token refresh and the upstream call.
C31_WriteFailureSwallowed ==
    [][(~env.diskOk /\ req' # req) =>
        /\ disk' = disk
        /\ (req.pc = "quotaWait" /\ req'.pc = "select") =>
                AccountOf(accounts', req.account).quotaExhaustedUntil > now
        /\ (req.pc = "refreshing" /\ req'.pc = "selected") =>
                /\ activeEmail' = req'.account
                /\ AccountOf(accounts', req'.account).lastUsed = now
                /\ isAccountAvailable(AccountOf(accounts', req'.account),
                                      req.selNow)
        /\ (req.pc = "tokenWait" /\ req'.pc = "call") =>
                /\ AccountOf(accounts', req.account).accessToken =
                        AccountOf(accounts, req.account).accessToken + 1
                /\ req'.token = AccountOf(accounts', req.account).accessToken
        /\ req'.thrown # NoException => req'.thrown \in RequestFailures
      ]_vars

\* A second request, made while the writes fail, is answered by the other
\* account: the first account is in cooldown in memory only.
C31_Witness ==
    /\ ~env.diskOk
    /\ req.n = 2
    /\ req.pc = "done"
    /\ req.stream # <<>>
    /\ req.stream[Len(req.stream)].type = "done"
    /\ \E i \in 1..Len(accounts) :
        /\ accounts[i].quotaExhaustedUntil # Undefined
        /\ accounts[i].quotaExhaustedUntil > now
        /\ disk.accounts[i].quotaExhaustedUntil = Undefined
        /\ accounts[i].email \notin req.headers

(***************************************************************************)
(* Usage cache TTL                                                         *)
(***************************************************************************)
\* The account has a cached snapshot younger than the TTL.
CachedYoung(email) ==
    /\ HasUsage(usageCache, email)
    /\ now - usageCache[email].fetchedAt < USAGE_CACHE_TTL_MS

\* C32: refreshUsageForAccount without force on an account whose cached
\* snapshot is younger than the TTL calls neither the token endpoint nor
\* the usage endpoint, returns that snapshot and leaves the cache and the
\* store as they were; refreshUsageIfStale calls the usage endpoint only
\* for accounts without a snapshot or with one at least TTL old.
C32_YoungSnapshotNotRefetched ==
    [][/\ (/\ Called("refreshUsageForAccount")
           /\ ~op'.force
           /\ CachedYoung(op'.email)) =>
                /\ op'.tokenCalls = 0
                /\ op'.fetchCalls = 0
                /\ op'.has
                /\ op'.usage = usageCache[op'.email]
                /\ ~op'.warned
                /\ usageCache' = usageCache
                /\ accounts' = accounts
       /\ Called("refreshUsageIfStale") =>
                /\ \A e \in op'.fetched : ~CachedYoung(e)
                /\ \A e \in DOMAIN usageCache :
                        CachedYoung(e) => /\ e \in DOMAIN usageCache'
                                          /\ usageCache'[e] = usageCache[e]
      ]_vars

\* refreshUsageIfStale ran on a pool with one young snapshot and one stale
\* account, and fetched the stale one only; before it a refresh without
\* force was answered from the cache.
C32_Witness ==
    /\ op.name = "refreshUsageIfStale"
    /\ op.n = 2
    /\ op.fetched # {}
    /\ \E e \in DOMAIN op.cacheBefore :
        /\ e \notin op.fetched
        /\ now - op.cacheBefore[e].fetchedAt < USAGE_CACHE_TTL_MS
        /\ usageCache[e] = op.cacheBefore[e]

(***************************************************************************)
(* Abort controllers of the attempts                                       *)
(***************************************************************************)
\* A step of the request that runs (the other request stays suspended).
Runs == peer' = peer

\* The wrapper decides to retry: handleQuotaExceeded settled.
RetryStep == Runs /\ req.pc = "quotaWait" /\ req'.pc = "select"

\* The upstream call of an attempt starts.
InvokeStep == Runs /\ req.pc = "call" /\ req'.calls = req.calls + 1

\* C33: the abort the wrapper issues when it retries aborts the controller
\* of that attempt only and leaves the caller's signal as it was; the
\* controller handed to the next upstream call is a new one, aborted only
\* if the caller's signal is aborted, and it stays so while the call runs.
C33_RetryAbortStaysInAttempt ==
    /\ [][/\ RetryStep =>
                /\ req'.controllers[Len(req'.controllers)].aborted
                /\ req'.cancelled = req.cancelled
          /\ InvokeStep =>
                /\ Len(req'.controllers) = Len(req.controllers) + 1
                /\ req'.controllers[Len(req'.controllers)].aborted
                        = req.cancelled
                /\ \A i \in DOMAIN req.controllers :
                        req'.controllers[i] = req.controllers[i]
         ]_vars
    /\ [](req.pc = "streaming" =>
            (req.controllers[Len(req.controllers)].aborted => req.cancelled))

\* The second attempt streams on a controller that is not aborted, the
\* controller of the first one was aborted by the retry, and the caller did
\* not cancel.
C33_Witness ==
    /\ req.pc = "streaming"
    /\ req.attempt = 1
    /\ ~req.cancelled
    /\ Len(req.controllers) = 2
    /\ req.controllers[1].aborted
    /\ ~req.controllers[2].aborted
    /\ req.up # <<>>

(***************************************************************************)
(* Order of the attempts of one request                                    *)
(***************************************************************************)
\* C34: when the wrapper stands at the head of the loop for attempt k+1, the
\* k attempts before made one upstream call each, the last event of attempt
\* k was a quota error, handleQuotaExceeded has marked that account
\* exhausted until after the error, its e-mail is in the exclusion set, and
\* every earlier upstream call was aborted; an upstream call starts only
\* when no earlier call of the request is still open.
C34_AttemptsSequential ==
    /\ [](req.pc = "select" /\ req.attempt > 0 =>
            /\ req.calls = req.attempt
            /\ req.up # <<>>
            /\ req.up[Len(req.up)].type = "error"
            /\ isQuotaErrorMessage(req.up[Len(req.up)].msg)
            /\ req.account \in req.excludedEmails
            /\ AccountOf(accounts, req.account).quotaExhaustedUntil
                    # Undefined
            /\ AccountOf(accounts, req.account).quotaExhaustedUntil
                    > req.selNow
            /\ \A i \in DOMAIN req.controllers : req.controllers[i].aborted)
    /\ [][InvokeStep =>
            \A i \in DOMAIN req.controllers : req.controllers[i].aborted
         ]_vars

\* The selection of the third attempt has begun: two calls were made, two
\* accounts are excluded and in cooldown.
C34_Witness ==
    /\ req.pc = "refreshing"
    /\ req.attempt = 2
    /\ req.calls = 2
    /\ Cardinality(req.excludedEmails) = 2
    /\ \A e \in req.excludedEmails :
            AccountOf(accounts, e).quotaExhaustedUntil > now

(***************************************************************************)
(* Two logical requests made concurrently                                  *)
(*                                                                         *)
(* The async bodies of the two requests run on one event loop: each step   *)
(* of a request runs from one await to the next without interruption, and  *)
(* at an await the other request may run.  req is the request whose        *)
(* continuation runs next, peer the one that waits.                        *)
(***************************************************************************)
\* The event loop resumes the other request.  A request at the head of its
\* loop is not suspended: the call of activateBestAccount follows the start
\* of the request and the `continue` of a retry without an await.
Switch ==
    /\ req # peer
    /\ req.pc # "select"
    /\ req' = peer
    /\ peer' = req
    /\ UNCHANGED <<accounts, activeEmail, disk, usageCache, now, env, pick,
                   manualEmail, op>>

\* The access and refresh tokens name their account: account i starts with
\* generation 10 * i.
TokenOwner(token) == token \div 10

\* A pool whose usage snapshots were just fetched: its tokens are due for a
\* refresh and the clock stands, or its tokens are fresh for an hour and the
\* clock advances.
ConcurrentInit ==
    /\ \E n \in 1..SmallPool, due \in BOOLEAN :
          /\ accounts =
                [i \in 1..n |->
                    Account(i, 10 * i,
                            IF due THEN TOKEN_MARGIN_MS
                            ELSE TOKEN_MARGIN_MS + TokenLifetimeMs,
                            Undefined, Undefined)]
          /\ env = Env(TRUE, IF due THEN 0 ELSE MaxTicks, MaxRequests)
    /\ activeEmail = 1
    /\ disk = [accounts |-> accounts, activeEmail |-> activeEmail]
    /\ usageCache = [e \in 1..Len(accounts) |->
                        Snapshot(Window(0, Undefined), Window(0, Undefined),
                                 0)]
    /\ now = 0
    /\ pick = PickIdle
    /\ req = IdleRequest
    /\ manualEmail = NoAccount
    /\ peer = IdleRequest
    /\ op = NoOp

\* The steps of a request whose upstream call answers with done or with a
\* quota error before any output.
ConcurrentRequestStep ==
    \/ Select
    \/ RefreshDone
    \/ EnsureValidToken
    \/ TokenRefreshOk
    \/ TokenRefreshFail
    \/ CallUpstream
    \/ OnEvent("done")
    \/ OnError(Msg429)
    \/ QuotaHandled

ConcurrentNext ==
    \/ StartRequest
    \/ ConcurrentRequestStep
    \/ Tick
    \/ Switch

SpecConcurrent == ConcurrentInit /\ [][ConcurrentNext]_vars

\* The two requests.
Requests == {req, peer}

\* C35: no store-mutating operation is suspended between the read its
\* update is based on and its write.  ensureValidToken reads the account's
\* refresh token, awaits the token endpoint and then overwrites the
\* account: when it writes, the account still holds the refresh token it
\* read.  (The other mutating operations are one step each.)
C35_NoSuspensionInsideMutation ==
    [][(Runs /\ req.pc = "tokenWait" /\ req'.pc = "call") =>
            AccountOf(accounts, req.account).refreshToken = req.refreshRead
      ]_vars

(***************************************************************************)
(* End of a cooldown                                                       *)
(***************************************************************************)
\* activateBestAccount is called / returns in the wrapper.
ActivateBestCalled == Runs /\ req.pc = "select" /\ req'.pc = "refreshing"
ActivateBestReturned ==
    Runs /\ req.pc = "refreshing" /\ req'.pc # "refreshing"

\* The e-mail is the only one of the pool that this request did not
\* exclude.
OnlyNonExcluded(email) ==
    /\ getAccount(accounts, email) # 0
    /\ email \notin req.excludedEmails
    /\ \A i \in 1..Len(accounts) :
            accounts[i].email # email =>
                accounts[i].email \in req.excludedEmails

\* C36: an activateBestAccount call made at a time >= T removes the
\* quotaExhaustedUntil = T of an account; an account without cooldown that
\* is the only one not excluded is the account returned; and when an
\* account is returned, activeEmail is its e-mail.
C36_SelectableAfterCooldown ==
    [][/\ ActivateBestCalled =>
            \A i \in 1..Len(accounts) :
                CooldownOver(accounts[i]) =>
                    accounts'[i].quotaExhaustedUntil = Undefined
       /\ ActivateBestReturned =>
            /\ req'.pc = "selected" => activeEmail' = req'.account
            /\ \A i \in 1..Len(accounts) :
                    (/\ OnlyNonExcluded(accounts[i].email)
                     /\ accounts[i].quotaExhaustedUntil = Undefined) =>
                        /\ req'.pc = "selected"
                        /\ req'.account = accounts[i].email
      ]_vars

\* The second request was given the only account of the pool at the time
\* its cooldown ended: the snapshot that set the cooldown is still cached.
C36_Witness ==
    /\ req.n = 2
    /\ req.pc = "selected"
    /\ Len(accounts) = 1
    /\ now = TickMs
    /\ accounts[1].quotaExhaustedUntil = Undefined
    /\ accounts[1].lastUsed = now
    /\ HasUsage(usageCache, 1)
    /\ getNextResetAt(usageCache[1]) = TickMs

\* C37: the X-Multicodex-Account header and the token of an upstream call
\* are those of the account the request's own selection returned, whatever
\* the pool's activeEmail is by then: at the call the header is the
\* account of the attempt and the token is one of that account, and it
\* stays so for either request while its call runs.
C37_AttemptUsesOwnAccount ==
    /\ [][InvokeStep =>
            /\ req.account # NoAccount
            /\ req'.lastCall.email = req.account
            /\ TokenOwner(req'.lastCall.token) = req.account
            /\ req'.headers = req.headers \cup {req.account}
         ]_vars
    /\ [](\A r \in Requests :
            r.pc \in {"streaming", "quotaWait"} =>
                /\ r.lastCall.email = r.account
                /\ TokenOwner(r.lastCall.token) = r.account)

\* Both requests have an upstream call running, on different accounts; the
\* pool's active account is that of the other request.
C37_Witness ==
    /\ req.pc = "streaming"
    /\ peer.pc = "streaming"
    /\ req.lastCall.email # peer.lastCall.email
    /\ activeEmail = peer.lastCall.email
    /\ TokenOwner(req.lastCall.token) = req.lastCall.email
    /\ req.lastCall.token # 10 * req.lastCall.email

(***************************************************************************)
(* A cooldown under concurrent requests                                    *)
(***************************************************************************)
\* C38 as claimed: when handleQuotaExceeded(A) completes, A's
\* quotaExhaustedUntil is later than now; and an activateBestAccount call
\* that started after that completion and before that time does not return
\* A, in either request.
C38_NotReturnedBeforeCooldownEnd ==
    [][/\ RetryStep =>
            AccountOf(accounts', req.account).quotaExhaustedUntil > now
       /\ (ActivateBestReturned /\ req'.pc = "selected") =>
            \A m \in req.seen :
                ~(m.email = req'.account /\ req.selNow < m.until)
      ]_vars

\* C38 amended: when handleQuotaExceeded(A) completes, A's
\* quotaExhaustedUntil is later than now; and an activateBestAccount call
\* that started after that completion and before that time does not return
\* A, in either request, while A's quotaExhaustedUntil is still that time.
C38_NotReturnedWhileCooldownStands ==
    [][/\ RetryStep =>
            AccountOf(accounts', req.account).quotaExhaustedUntil > now
       /\ (ActivateBestReturned /\ req'.pc = "selected") =>
            \A m \in req.seen :
                ~(/\ m.email = req'.account
                  /\ req.selNow < m.until
                  /\ AccountOf(accounts, m.email).quotaExhaustedUntil
                        = m.until)
      ]_vars

\* activateBestAccount returned the other account to a request that began
\* its call after the other request's handleQuotaExceeded had put an account
\* in a cooldown that still stands.
C38_Witness ==
    /\ req.pc = "selected"
    /\ \E m \in req.seen \cap peer.marks :
        /\ req.selNow < m.until
        /\ AccountOf(accounts, m.email).quotaExhaustedUntil = m.until
        /\ req.account # m.email
        /\ now > m.at

(***************************************************************************)
(* What changes a cooldown                                                 *)
(***************************************************************************)
\* The operations that set or remove no cooldown.
CooldownKeepers ==
    {"addOrUpdateAccount", "setActiveAccount", "ensureValidToken",
     "refreshUsageForAccount"}

====
